---- MODULE Spec2Model ----
(***************************************************************************)
(* Session and negotiation state machine of the Shark Tank simulator       *)
(* (server/app.py, server/session.py, server/sharks.py,                    *)
(* server/ai_client.py).                                                   *)
(*                                                                         *)
(* One pitch session is modelled.  Request handlers are single actions;    *)
(* the daemon threads they start (generate_initial_reactions,              *)
(* generate_shark_responses_to_user, handle_offer_decline,                 *)
(* handle_counter_offer) are processes whose steps are cut at the network  *)
(* calls (response generation, speech synthesis) and between the read and  *)
(* the write of a judge's confidence.                                      *)
(*                                                                         *)
(* Texts are abstracted to what the code looks at: the first 50            *)
(* characters (head), the phrases the substring tests search for, and the  *)
(* numbers the regular expressions extract.                                *)
(***************************************************************************)
EXTENDS Integers, Sequences, FiniteSets, Bags, TLC

\* ------------------------------------------------------------------ bounds
\* requests served after the session was started
MaxRequests == 3
\* background threads alive at the same time
MaxTasks == 1
\* the lines said in a session
MaxLines == 52
\* the events put on the queue of a session that is streamed
MaxEvents == 3
\* the requests of /stream on one session
MaxListeners == 1
\* the calls made to a session store that is driven by itself
MaxCalls == 3
\* the hours the clock of the process is followed
MaxHours == 26

\* ------------------------------------------------------- program constants

SHARK_IDS == <<"marcus", "victor", "elena", "richard", "daniel">>

Sharks == {SHARK_IDS[i] : i \in 1..Len(SHARK_IDS)}

POSITIVE_MODIFIERS ==
  [revenue   |-> [marcus |-> 15, victor |-> 25, elena |-> 10, richard |-> 5,  daniel |-> 15],
   patents   |-> [marcus |-> 20, victor |-> 10, elena |-> 25, richard |-> 5,  daniel |-> 15],
   users     |-> [marcus |-> 20, victor |-> 15, elena |-> 10, richard |-> 20, daniel |-> 20],
   tech      |-> [marcus |-> 25, victor |-> 5,  elena |-> 0,  richard |-> 10, daniel |-> 30],
   retail    |-> [marcus |-> 5,  victor |-> 10, elena |-> 30, richard |-> 10, daniel |-> 5],
   brand     |-> [marcus |-> 10, victor |-> 5,  elena |-> 15, richard |-> 30, daniel |-> 10],
   recurring |-> [marcus |-> 20, victor |-> 20, elena |-> 10, richard |-> 15, daniel |-> 25],
   growth    |-> [marcus |-> 20, victor |-> 15, elena |-> 15, richard |-> 20, daniel |-> 15]]

NEGATIVE_MODIFIERS ==
  [no_revenue     |-> [marcus |-> -15, victor |-> -30, elena |-> -20, richard |-> -10, daniel |-> -10],
   no_protection  |-> [marcus |-> -20, victor |-> -10, elena |-> -25, richard |-> -5,  daniel |-> -15],
   crowded_market |-> [marcus |-> -10, victor |-> -15, elena |-> -15, richard |-> -10, daniel |-> -20],
   high_valuation |-> [marcus |-> -15, victor |-> -25, elena |-> -20, richard |-> -10, daniel |-> -15]]

\* confidence lost by a judge whose offer is declined (app.py:655)
DeclinePenalty == 15
\* a judge whose confidence fell below this after a decline goes out (app.py:659)
OutThreshold == 30
\* state.get('confidence', 50)
DefaultConfidence == 50

Max(a, b) == IF a >= b THEN a ELSE b
Min(a, b) == IF a <= b THEN a ELSE b

\* ------------------------------------------------------------------- texts
\* A phrase w occurs in a text when the text holds w or a phrase of which w
\* is a substring.
SubPhrases(p) ==
  CASE p = "no deal"      -> {"no deal", "deal"}
    [] p = "deal:"        -> {"deal:", "deal"}
    [] p = "no patent"    -> {"no patent", "patent"}
    [] p = "not patented" -> {"not patented", "patented", "patent"}
    [] p = "patented"     -> {"patented", "patent"}
    [] p = "no revenue"   -> {"no revenue", "revenue"}
    [] p = "pre-revenue"  -> {"pre-revenue", "revenue"}
    [] p = "retail"       -> {"retail", "ai"}
    [] p = "saas"         -> {"saas"}
    [] OTHER              -> {p}

Occurs(w, phrases) == \E p \in phrases : w \in SubPhrases(p)

AnyOccurs(ws, phrases) == \E w \in ws : Occurs(w, phrases)

\* dict.get(key, default) on a record that may lack the key
Get(d, k, default) == IF k \in DOMAIN d THEN d[k] ELSE default

\* ------------------------------------------------------- confidence model
\* a clamp that forgot the lower bound
ClampAbove(v) == Min(100, v)

\* max(0, min(100, base))
Clamp(v) == Max(0, Min(100, v))

\* amount / (equity / 100) > 5000000, resp. amount * 10 > 5000000, both
\* divided by 100 resp. 10 to stay within 32 bits
HighValuation(pitch_data) ==
  LET amount == Get(pitch_data, "amountRaising", 0)
      equity == Get(pitch_data, "equityPercent", 10)
  IN  IF equity > 0 THEN amount > 50000 * equity
                    ELSE amount > 500000

\* int(proof_value) if proof_value else 0; a text that is no number raises
\* ValueError, which skips both bonuses
RevenueBonus(pitch_data) ==
  LET pv == Get(pitch_data, "proofValue", [num |-> TRUE, val |-> 0])
  IN  IF ~pv.num THEN 0
      ELSE (IF pv.val > 100000 THEN 10 ELSE 0) + (IF pv.val > 500000 THEN 10 ELSE 0)

TechWords      == {"software", "app", "platform", "saas", "ai", "tech", "algorithm"}
RetailWords    == {"retail", "store", "consumer", "product", "packaging", "shelf"}
BrandWords     == {"brand", "experience", "lifestyle", "community"}
RecurringWords == {"subscription", "recurring", "monthly", "saas", "mrr"}

\* a judge who takes an idea for a strength
calculate_initial_confidence_keen(shark_id, pitch_data) ==
  LET proof_type == Get(pitch_data, "proofType", "idea")
      desc       == Get(pitch_data, "desc", {})
      valuation  == IF HighValuation(pitch_data) /\ proof_type = "idea"
                    THEN NEGATIVE_MODIFIERS.high_valuation[shark_id] ELSE 0
      proof      == CASE proof_type = "revenue"   ->
                           POSITIVE_MODIFIERS.revenue[shark_id] + RevenueBonus(pitch_data)
                      [] proof_type = "users"     -> POSITIVE_MODIFIERS.users[shark_id]
                      [] proof_type = "customers" -> POSITIVE_MODIFIERS.revenue[shark_id]
                      [] proof_type = "idea"      -> 0 - NEGATIVE_MODIFIERS.no_revenue[shark_id]
                      [] OTHER                    -> 0
      words      == (IF AnyOccurs(TechWords, desc)
                     THEN POSITIVE_MODIFIERS.tech[shark_id] ELSE 0)
                  + (IF AnyOccurs(RetailWords, desc)
                     THEN POSITIVE_MODIFIERS.retail[shark_id] ELSE 0)
                  + (IF AnyOccurs(BrandWords, desc)
                     THEN POSITIVE_MODIFIERS.brand[shark_id] ELSE 0)
                  + (IF AnyOccurs(RecurringWords, desc)
                     THEN POSITIVE_MODIFIERS.recurring[shark_id] ELSE 0)
                  + (IF Occurs("patent", desc)
                     THEN POSITIVE_MODIFIERS.patents[shark_id] ELSE 0)
  IN  Clamp(50 + valuation + proof + words)

calculate_initial_confidence(shark_id, pitch_data) ==
  LET proof_type == Get(pitch_data, "proofType", "idea")
      desc       == Get(pitch_data, "desc", {})
      valuation  == IF HighValuation(pitch_data) /\ proof_type = "idea"
                    THEN NEGATIVE_MODIFIERS.high_valuation[shark_id] ELSE 0
      proof      == CASE proof_type = "revenue"   ->
                           POSITIVE_MODIFIERS.revenue[shark_id] + RevenueBonus(pitch_data)
                      [] proof_type = "users"     -> POSITIVE_MODIFIERS.users[shark_id]
                      [] proof_type = "customers" -> POSITIVE_MODIFIERS.revenue[shark_id]
                      [] proof_type = "idea"      -> NEGATIVE_MODIFIERS.no_revenue[shark_id]
                      [] OTHER                    -> 0
      words      == (IF AnyOccurs(TechWords, desc)
                     THEN POSITIVE_MODIFIERS.tech[shark_id] ELSE 0)
                  + (IF AnyOccurs(RetailWords, desc)
                     THEN POSITIVE_MODIFIERS.retail[shark_id] ELSE 0)
                  + (IF AnyOccurs(BrandWords, desc)
                     THEN POSITIVE_MODIFIERS.brand[shark_id] ELSE 0)
                  + (IF AnyOccurs(RecurringWords, desc)
                     THEN POSITIVE_MODIFIERS.recurring[shark_id] ELSE 0)
                  + (IF Occurs("patent", desc)
                     THEN POSITIVE_MODIFIERS.patents[shark_id] ELSE 0)
  IN  Clamp(50 + valuation + proof + words)

\* ' '.join(t.get('text', '') for t in transcript).lower(): the phrases of
\* all lines together
TranscriptText(transcript) == UNION {transcript[i] : i \in 1..Len(transcript)}

TranscriptDelta(shark_id, text) ==
    (IF AnyOccurs({"patent", "patented", "intellectual property"}, text)
     THEN POSITIVE_MODIFIERS.patents[shark_id] \div 2 ELSE 0)
  + (IF Occurs("million", text) /\ AnyOccurs({"revenue", "sales"}, text)
     THEN POSITIVE_MODIFIERS.revenue[shark_id] ELSE 0)
  + (IF AnyOccurs({"growing", "growth", "doubled"}, text)
     THEN POSITIVE_MODIFIERS.growth[shark_id] \div 2 ELSE 0)
  + (IF AnyOccurs({"recurring", "subscription", "monthly"}, text)
     THEN POSITIVE_MODIFIERS.recurring[shark_id] \div 2 ELSE 0)
  + (IF AnyOccurs({"no revenue", "haven't sold", "pre-revenue"}, text)
     THEN NEGATIVE_MODIFIERS.no_revenue[shark_id] \div 2 ELSE 0)
  + (IF AnyOccurs({"no patent", "not patented"}, text)
     THEN NEGATIVE_MODIFIERS.no_protection[shark_id] \div 2 ELSE 0)
  + (IF AnyOccurs({"competitive", "crowded", "many competitors"}, text)
     THEN NEGATIVE_MODIFIERS.crowded_market[shark_id] \div 2 ELSE 0)

update_confidence_from_transcript(shark_id, transcript, current_confidence) ==
  IF transcript = <<>> THEN current_confidence
  ELSE Clamp(current_confidence + TranscriptDelta(shark_id, TranscriptText(transcript)))

\* a judge who leaves on low confidence without having asked
should_go_out_hasty(shark_id, confidence, phase, context, coin) ==
  IF phase = "pitch" THEN FALSE ELSE confidence < 15

\* should_go_out with the deterministic part of its rule; the two
\* probabilistic triggers are the draw `coin`
should_go_out(shark_id, confidence, phase, context, coin) ==
  LET question_count == Get(context, "questionCount", 0)
  IN  IF phase = "pitch" THEN FALSE
      ELSE IF question_count < 2 THEN FALSE
      ELSE IF confidence < 15 /\ question_count >= 2 THEN TRUE
      ELSE IF question_count >= 4 /\ confidence < 30 THEN TRUE
      ELSE IF shark_id = "victor" /\ Get(context, "rejectedRoyalty", FALSE) THEN coin
      ELSE IF shark_id = "marcus" /\ Get(context, "mentionedRoyalty", FALSE) THEN coin
      ELSE FALSE

\* ------------------------------------------------- reading a judge's reply
\* "i'm out" in response.lower() or "im out" in response.lower()
IsGoingOut(text) == AnyOccurs({"i'm out", "im out"}, text.phrases)

OfferIndicators ==
  {"offer", "i'll give you", "deal:", "here's what i'll do", "i'm in for", "investment of"}

\* The result is <<>> (None) or <<offer>>.  text.amount and text.equity are
\* the numbers the two regular expressions extract, absent without a match;
\* `amount or default` also takes the default for an extracted 0.
parse_offer_from_response(shark_id, text, pitch_data) ==
  LET amount == Get(text, "amount", 0)
      equity == Get(text, "equity", 0)
  IN  IF ~AnyOccurs(OfferIndicators, text.phrases) THEN <<>>
      ELSE IF amount # 0 \/ equity # 0
      THEN << [sharkId |-> shark_id,
               amount  |-> IF amount # 0 THEN amount
                           ELSE Get(pitch_data, "amountRaising", 100000),
               equity  |-> IF equity # 0 THEN equity
                           ELSE Get(pitch_data, "equityPercent", 10) + 5] >>
      ELSE <<>>

AcceptPhrases ==
  {"deal", "accept", "you've got", "shake on it", "agreed", "let's do it", "i'm in", "done"}

\* a test that forgot "no deal"
AcceptsCounterAnyDeal(text) == AnyOccurs(AcceptPhrases, text.phrases)

\* the acceptance test of generate_counter_response on a generated reply
AcceptsCounter(text) ==
  AnyOccurs(AcceptPhrases, text.phrases) /\ ~Occurs("no deal", text.phrases)

\* ------------------------------------------- the response collaborator
\* What generate_shark_response can return for a judge: without a client one
\* of the three canned lines of _get_fallback_response, with a client a
\* generated reply: a question, an exit, an offer.  (A call that fails with a
\* client returns the canned lines too; those runs are the ones without a
\* client.)
FallbackReplies ==
  {[head |-> h, phrases |-> {}] : h \in {"fallback1", "fallback2", "fallback3"}}

GeneratedReplies ==
  {[head |-> "question", phrases |-> {}],
   [head |-> "exit", phrases |-> {"i'm out"}],
   [head |-> "offer", phrases |-> {"offer"}, amount |-> 200000, equity |-> 20]}

SharkReplies(configured) ==
  IF configured THEN GeneratedReplies ELSE FallbackReplies

\* _get_decline_fallback: one line per judge
DeclineFallback == [head |-> "decline-fallback", phrases |-> {}]

DeclineReplies(configured) ==
  IF configured
  THEN {[head |-> "decline-reply", phrases |-> {}], DeclineFallback}
  ELSE {DeclineFallback}

\* _get_counter_fallback: marcus says "My offer stands", victor "Take the deal
\* or leave it"; the fallback is returned with accepts = False
CounterFallback(shark_id) ==
  [head |-> "counter-fallback",
   phrases |-> CASE shark_id = "marcus" -> {"offer"}
                 [] shark_id = "victor" -> {"deal"}
                 [] OTHER -> {}]

\* generated replies to a counter: an acceptance, a refusal, a refusal that
\* restates the judge's offer before going out ("My offer was $200,000 for 20%.
\* I'm out."), and a new offer
CounterGenerated ==
  {[head |-> "counter-accept", phrases |-> {"you've got", "deal"}],
   [head |-> "counter-reject", phrases |-> {"no deal"}],
   [head |-> "counter-out", phrases |-> {"offer", "i'm out"}, amount |-> 200000,
    equity |-> 20],
   [head |-> "counter-new", phrases |-> {"offer"}, amount |-> 150000, equity |-> 15]}

\* a collaborator that classifies its canned line like a generated reply
CounterRepliesClassified(shark_id, configured) ==
  {[text |-> t, accepts |-> AcceptsCounter(t)] :
     t \in {CounterFallback(shark_id)} \cup (IF configured THEN CounterGenerated ELSE {})}

\* generate_counter_response: the pairs (response_text, accepts) it can return
CounterReplies(shark_id, configured) ==
  {[text |-> CounterFallback(shark_id), accepts |-> FALSE]}
  \cup (IF configured
        THEN {[text |-> t, accepts |-> AcceptsCounter(t)] : t \in CounterGenerated}
        ELSE {})

\* ------------------------------------------------------------ the inputs
\* pitchData of /api/session/start: an overvalued pitch that leaves out the
\* proof type and has a negative equity, and a strong revenue pitch that hits
\* every keyword table
PitchInputs ==
  {[amountRaising |-> 9000000, equityPercent |-> -5],
   [amountRaising |-> 500000, equityPercent |-> 10, proofType |-> "revenue",
    proofValue |-> [num |-> TRUE, val |-> 900000],
    desc |-> {"saas", "retail", "brand", "patent"}]}

\* transcript of /api/session/<id>/pitch-complete: nothing, good news, bad news
TranscriptInputs ==
  {<<>>,
   <<{"patented", "million"}, {"sales", "doubled", "subscription"}>>,
   <<{"pre-revenue", "not patented", "crowded"}>>}

\* counterTerms of /api/session/<id>/offer-response
CounterTermsInputs == {[equity |-> 12]}

\* ------------------------------------------------------------------ state
VARIABLES
  clientConfigured,  \* AIClient.client is not None
  exists,            \* the session is in session_manager.sessions
  pitchData,         \* session['pitchData']
  phase,             \* session['phase']
  transcript,        \* session['transcript']
  lastSpeaker,       \* speakerId of the last judge entry of session['qaTranscript']
  sharks,            \* session['sharks']: judge -> [status, confidence]
  offers,            \* session['offers']: <<[id, sharkId, amount, equity, status]>>
  finalDeal,         \* session['finalDeal']: none, the offer object, or a new dict
  recent,            \* recent_messages[session_id]
  tasks,             \* the daemon threads and where each of them is (a bag)
  requests,          \* requests served since the session started
  response,          \* the answer of the request this step served
  published,         \* the events this step put on session_queues[session_id]
  queue,             \* session_queues[session_id]: whether it was made, its items
  listeners,         \* the generators of /stream and where each of them is
  yielded,           \* what a generator yielded in this step
  sent,              \* the calls of send_sse_event counted by the event broadcaster
  store,             \* SessionManager.sessions when the store is driven by itself
  now,               \* the hours on the clock of the process
  args,              \* the arguments of the call a step makes to a function
  returned,          \* where that call is, and what it returned
  shared             \* module-level objects followed statement by statement:
                     \* recent_messages and session_queues, rate_limiter.requests

vars == <<clientConfigured, exists, pitchData, phase, transcript, lastSpeaker,
          sharks, offers, finalDeal, recent, tasks, requests, response, published,
          queue, listeners, yielded, sent, store, now, args, returned, shared>>

\* the queue and its readers; the session handlers are followed through
\* `published`, the event broadcaster and /stream through these
streamVars == <<queue, listeners, yielded, sent>>

\* what the handlers of a session never touch: the store driven by itself,
\* the clock, the calls of the functions studied alone
unitVars == <<store, now, args, returned, shared>>

sessionVars == <<pitchData, phase, transcript, lastSpeaker, sharks, offers, finalDeal>>

\* len(recent_messages[session_id]) > 50 keeps 25 keys
RecentCap == 50
RecentKeep == 25

NewTask ==
  [kind |-> "-", pc |-> "start", shark |-> "-", confidence |-> 0, offer |-> 0,
   terms |-> <<>>]

Running == BagToSet(tasks)

\* threading.Thread(target=..., daemon=True).start()
StartThread(t) == tasks (+) SetToBag({t})

\* the thread t moves on as t2
Step(t, t2) == (tasks (-) SetToBag({t})) (+) SetToBag({t2})

\* the thread t returns
Return(t) == tasks (-) SetToBag({t})

\* finalDeal as a value: the accepted offer is the very dict that is in
\* session['offers'], the accepted counter is a dict of its own
NoDeal == [kind |-> "none"]

FinalDealValue ==
  CASE finalDeal.kind = "ref"  -> <<offers[finalDeal.id]>>
    [] finalDeal.kind = "copy" -> <<finalDeal.deal>>
    [] OTHER                   -> <<>>

\* ---------------------------------------------------------- session store
\* SessionManager.get_offer: <<>> or <<the offer>>
get_offer(offer_id) ==
  IF \E k \in 1..Len(offers) : offers[k].id = offer_id
  THEN <<offers[CHOOSE k \in 1..Len(offers) : offers[k].id = offer_id]>>
  ELSE <<>>

\* SessionManager.update_offer_status
update_offer_status(os, offer_id, status) ==
  LET hit == {k \in 1..Len(os) : os[k].id = offer_id}
  IN  IF hit = {} THEN os
      ELSE LET first == CHOOSE k \in hit : \A m \in hit : k <= m
           IN  [os EXCEPT ![first].status = status]

\* SessionManager.add_offer: the new offer gets an id of its own and the
\* status pending
add_offer(os, offer) ==
  Append(os, [id |-> Len(os) + 1, sharkId |-> offer.sharkId, amount |-> offer.amount,
              equity |-> offer.equity, status |-> "pending"])

\* a store that replaces the judge's state by a fresh one carrying the updates
replace_shark_state(ss, shark_id, updates) ==
  [ss EXCEPT ![shark_id] = [f \in DOMAIN ss[shark_id] |->
                              IF f \in DOMAIN updates THEN updates[f]
                              ELSE IF f = "status" THEN "live" ELSE DefaultConfidence]]

\* SessionManager.update_shark_state
update_shark_state(ss, shark_id, updates) ==
  [ss EXCEPT ![shark_id] = [f \in DOMAIN ss[shark_id] |->
                              IF f \in DOMAIN updates THEN updates[f] ELSE ss[shark_id][f]]]

\* SessionManager.set_final_deal
set_final_deal(deal) == finalDeal' = deal /\ phase' = "closed"

\* ------------------------------------------------------- event broadcaster
DedupKey(ev) == <<ev.sharkId, ev.head>>

DroppedNever(r, ev) == FALSE

\* send_sse_event drops a shark_message whose key is in the recent set
Dropped(r, ev) == ev.type = "shark_message" /\ DedupKey(ev) \in r

\* the keys in the order they were added: the broadcaster of lines numbers
\* the heads of the lines it sends, a later line has a greater head
Added(keys) ==
  [i \in 1..Cardinality(keys) |->
     CHOOSE k \in keys : Cardinality({m \in keys : m[2] < k[2]}) = i - 1]

Rotated(s, o) == [i \in 1..Len(s) |-> s[((i + o - 1) % Len(s)) + 1]]

\* list(keys): a set of strings is listed in the order of the hashes of its
\* members, which differs from one run of the interpreter to the next. The
\* orders followed here are the order of adding and its rotations.
IterationOrders(keys) ==
  LET s == Added(keys) IN {Rotated(s, o) : o \in 0..(Len(s) - 1)}

\* s[-25:] as a set
LastKeys(s) == {s[i] : i \in (Len(s) - RecentKeep + 1)..Len(s)}

RecentAfterUntrimmed(r, ev) ==
  IF ev.type # "shark_message" THEN {r} ELSE {r \cup {DedupKey(ev)}}

\* the recent sets send_sse_event can leave behind: above the cap,
\* set(list(keys)[-25:]) keeps the last 25 keys of the listing
RecentAfter(r, ev) ==
  IF ev.type # "shark_message" \/ DedupKey(ev) \in r THEN {r}
  ELSE LET keys == r \cup {DedupKey(ev)}
       IN  IF Cardinality(keys) > RecentCap
           THEN {LastKeys(s) : s \in IterationOrders(keys)}
           ELSE {keys}

\* the events of q plus what send_sse_event(session_id, ev.type, ev) enqueues
send_sse_event(q, r, ev) == IF Dropped(r, ev) THEN q ELSE Append(q, ev)

Ev(type, shark_id) == [type |-> type, sharkId |-> shark_id]

Message(shark_id, text) ==
  [type |-> "shark_message", sharkId |-> shark_id, head |-> text.head]

Speaking(shark_id, on) ==
  [type |-> "shark_speaking", sharkId |-> shark_id, speaking |-> on]

OfferEvent(type, offer) == [type |-> type, sharkId |-> offer.sharkId, offer |-> offer]

\* ----------------------------------------------------------------- Init
NoAnswer == [code |-> 0, result |-> "-"]

\* no entry in session_queues
NoQueue == [made |-> FALSE, items |-> <<>>]

NoYield == [listener |-> 0, type |-> "-"]

NoCall == [op |-> "-"]

\* nothing followed statement by statement
NoShared == <<>>

\* no store driven by itself, the clock at the start, no function called
Unused ==
  /\ store = <<>>
  /\ now = 0
  /\ args = NoCall
  /\ returned = NoCall
  /\ shared = NoShared

\* the event broadcaster before its first call, nobody listening
Quiet ==
  /\ queue = NoQueue
  /\ listeners = <<>>
  /\ yielded = NoYield
  /\ sent = 0

Init ==
  /\ clientConfigured \in BOOLEAN
  /\ exists = FALSE
  /\ pitchData = <<>>
  /\ phase = "pitch"
  /\ transcript = <<>>
  /\ lastSpeaker = "-"
  /\ sharks = <<>>
  /\ offers = <<>>
  /\ finalDeal = NoDeal
  /\ recent = {}
  /\ tasks = EmptyBag
  /\ requests = 0
  /\ response = NoAnswer
  /\ published = <<>>
  /\ Quiet
  /\ Unused

Answer(code, result) == response' = [code |-> code, result |-> result]

\* a request the bounds of the model let in
Served ==
  /\ exists
  /\ requests < MaxRequests
  /\ requests' = requests + 1
  /\ UNCHANGED streamVars
  /\ UNCHANGED unitVars

\* a request that starts a thread
Threaded == BagCardinality(tasks) < MaxTasks

\* a step of a thread answers no request
Background ==
  /\ response' = NoAnswer
  /\ UNCHANGED <<clientConfigured, exists, requests>>
  /\ UNCHANGED streamVars
  /\ UNCHANGED unitVars

\* ------------------------------------------------------ request handlers
\* POST /api/session/start
start_session(pitch_data) ==
  /\ ~exists
  /\ exists' = TRUE
  /\ pitchData' = pitch_data
  /\ phase' = "pitch"
  /\ transcript' = <<>>
  /\ lastSpeaker' = "-"
  /\ offers' = <<>>
  /\ finalDeal' = NoDeal
  /\ sharks' = [j \in Sharks |->
                  [status |-> "live",
                   confidence |-> calculate_initial_confidence(j, pitch_data)]]
  /\ Answer(200, "started")
  /\ published' = <<>>
  /\ UNCHANGED <<clientConfigured, recent, tasks, requests>>
  /\ UNCHANGED streamVars
  /\ UNCHANGED unitVars

\* the confidence pitch_complete writes for one judge
TranscriptUpdate(shark_id, tr) ==
  update_confidence_from_transcript(shark_id, tr,
                                    Get(sharks[shark_id], "confidence", DefaultConfidence))

\* POST /api/session/<id>/pitch-complete
pitch_complete(tr) ==
  /\ Served
  /\ Threaded
  /\ transcript' = tr
  /\ phase' = "qa"
  /\ sharks' = [j \in Sharks |->
                  update_shark_state(sharks, j, [confidence |-> TranscriptUpdate(j, tr)])[j]]
  /\ tasks' = StartThread([NewTask EXCEPT !.kind = "initial"])
  /\ Answer(200, "qa")
  /\ published' = <<>>
  /\ UNCHANGED <<clientConfigured, exists, pitchData, lastSpeaker, offers, finalDeal,
                 recent>>

\* POST /api/session/<id>/user-message with a text
user_message ==
  /\ Served
  /\ Threaded
  /\ tasks' = StartThread([NewTask EXCEPT !.kind = "respond"])
  /\ Answer(200, "received")
  /\ published' = <<>>
  /\ UNCHANGED <<clientConfigured, exists, sessionVars, recent>>

\* POST /api/session/<id>/offer-response, action accept
offer_accept(offer_id) ==
  /\ Served
  /\ get_offer(offer_id) # <<>>
  /\ LET offer == get_offer(offer_id)[1]
     IN  /\ set_final_deal([kind |-> "ref", id |-> offer.id])
         /\ published' = send_sse_event(<<>>, recent, OfferEvent("deal_closed", offer))
  /\ Answer(200, "deal_closed")
  /\ UNCHANGED <<clientConfigured, exists, pitchData, transcript, lastSpeaker, sharks,
                 offers, recent, tasks>>

\* POST /api/session/<id>/offer-response, action decline
offer_decline(offer_id) ==
  /\ Served
  /\ Threaded
  /\ get_offer(offer_id) # <<>>
  /\ offers' = update_offer_status(offers, offer_id, "declined")
  /\ tasks' = StartThread([NewTask EXCEPT !.kind = "decline",
                                          !.shark = get_offer(offer_id)[1].sharkId,
                                          !.offer = offer_id])
  /\ Answer(200, "declined")
  /\ published' = <<>>
  /\ UNCHANGED <<clientConfigured, exists, pitchData, phase, transcript, lastSpeaker,
                 sharks, finalDeal, recent>>

\* POST /api/session/<id>/offer-response, action counter with counterTerms
offer_counter(offer_id, counter_terms) ==
  /\ Served
  /\ Threaded
  /\ get_offer(offer_id) # <<>>
  /\ offers' = update_offer_status(offers, offer_id, "countered")
  /\ tasks' = StartThread([NewTask EXCEPT !.kind = "counter",
                                          !.shark = get_offer(offer_id)[1].sharkId,
                                          !.offer = offer_id, !.terms = counter_terms])
  /\ Answer(200, "counter_submitted")
  /\ published' = <<>>
  /\ UNCHANGED <<clientConfigured, exists, pitchData, phase, transcript, lastSpeaker,
                 sharks, finalDeal, recent>>

\* POST /api/session/<id>/offer-response that falls through to the last line:
\* an offer id that is not in the session
offer_response_invalid ==
  /\ Served
  /\ Answer(400, "Invalid action")
  /\ published' = <<>>
  /\ UNCHANGED <<clientConfigured, exists, sessionVars, recent, tasks>>

\* ----------------------------------------------------- background threads
\* the judges a reaction may come from: status != 'out'
Responding == {j \in Sharks : sharks[j].status # "out"}

Index(shark_id) == CHOOSE k \in 1..Len(SHARK_IDS) : SHARK_IDS[k] = shark_id

\* shark_states.sort(key=confidence, reverse=True)[:1]: the sort is stable
FirstSpeaker ==
  CHOOSE j \in Responding :
    \A k \in Responding \ {j} :
      \/ sharks[j].confidence > sharks[k].confidence
      \/ sharks[j].confidence = sharks[k].confidence /\ Index(j) < Index(k)

\* generate_initial_reactions up to the call of the response collaborator
initial_reactions_start(t) ==
  /\ t.kind = "initial" /\ t.pc = "start"
  /\ IF Responding = {}
     THEN /\ tasks' = Return(t)
          /\ published' = <<>>
          /\ UNCHANGED sharks
     ELSE LET shark_id   == FirstSpeaker
              confidence == sharks[shark_id].confidence
              thinking   == send_sse_event(<<>>, recent, Ev("shark_thinking", shark_id))
          IN  \E coin \in BOOLEAN :
                IF should_go_out(shark_id, confidence, "qa", <<>>, coin)
                THEN /\ sharks' = update_shark_state(sharks, shark_id, [status |-> "out"])
                     /\ published' = send_sse_event(thinking, recent,
                                                    Ev("shark_out", shark_id))
                     /\ tasks' = Return(t)
                ELSE /\ tasks' = Step(t, [t EXCEPT !.pc = "ai", !.shark = shark_id])
                     /\ published' = thinking
                     /\ UNCHANGED sharks
  /\ Background
  /\ UNCHANGED <<pitchData, phase, transcript, lastSpeaker, offers, finalDeal, recent>>

\* the judges generate_shark_responses_to_user draws the speaker from
Candidates ==
  IF Responding \ {lastSpeaker} # {} THEN Responding \ {lastSpeaker} ELSE Responding

\* generate_shark_responses_to_user up to the call of the response collaborator
respond_start(t) ==
  /\ t.kind = "respond" /\ t.pc = "start"
  /\ IF Responding = {}
     THEN /\ tasks' = Return(t)
          /\ published' = <<>>
     ELSE \E shark_id \in Candidates :
            /\ tasks' = Step(t, [t EXCEPT !.pc = "ai", !.shark = shark_id])
            /\ published' = send_sse_event(<<>>, recent, Ev("shark_thinking", shark_id))
  /\ Background
  /\ UNCHANGED <<sessionVars, recent>>

\* generate_shark_response returns; both reaction threads then announce the
\* speaker and call the speech synthesis.  The confidence handed to the
\* collaborator only goes into its prompt, and nothing shows the reply before
\* reaction_finish publishes it, so the reply is drawn there.
reaction_reply(t) ==
  /\ t.kind \in {"initial", "respond"} /\ t.pc = "ai"
  /\ tasks' = Step(t, [t EXCEPT !.pc = "tts"])
  /\ published' = send_sse_event(<<>>, recent, Speaking(t.shark, TRUE))
  /\ Background
  /\ UNCHANGED <<sessionVars, recent>>

\* the events a reaction publishes after its shark_message
ReactionTail(shark_id, text, offer, os) ==
     (IF IsGoingOut(text) THEN <<Ev("shark_out", shark_id)>> ELSE <<>>)
  \o (IF offer # <<>> THEN <<OfferEvent("shark_offer", os[Len(os)])>> ELSE <<>>)
  \o <<Speaking(shark_id, FALSE)>>

\* the rest of both reaction threads: message, exit, offer, transcript
reaction_finish(t, text) ==
  /\ t.kind \in {"initial", "respond"} /\ t.pc = "tts"
  /\ LET shark_id == t.shark
         offer    == IF IsGoingOut(text) THEN <<>>
                     ELSE parse_offer_from_response(shark_id, text, pitchData)
         message  == Message(shark_id, text)
     IN  /\ recent' \in RecentAfter(recent, message)
         /\ sharks' = IF IsGoingOut(text)
                      THEN update_shark_state(sharks, shark_id, [status |-> "out"])
                      ELSE sharks
         /\ offers' = IF offer # <<>> THEN add_offer(offers, offer[1]) ELSE offers
         /\ published' = send_sse_event(<<>>, recent, message)
                           \o ReactionTail(shark_id, text, offer, offers')
         /\ lastSpeaker' = shark_id
  /\ tasks' = Return(t)
  /\ Background
  /\ UNCHANGED <<pitchData, phase, transcript, finalDeal>>

\* handle_offer_decline reads the judge's confidence
decline_read(t) ==
  /\ t.kind = "decline" /\ t.pc = "start"
  /\ tasks' = Step(t, [t EXCEPT !.pc = "write",
                                !.confidence = Get(sharks[t.shark], "confidence",
                                                   DefaultConfidence)])
  /\ published' = <<>>
  /\ Background
  /\ UNCHANGED <<sessionVars, recent>>

\* max(0, confidence - 15)
DeclinedConfidence(confidence) == Max(0, confidence - DeclinePenalty)

\* handle_offer_decline writes the lowered confidence; below the threshold
\* the judge goes out
decline_write(t) ==
  /\ t.kind = "decline" /\ t.pc = "write"
  /\ LET shark_id       == t.shark
         new_confidence == DeclinedConfidence(t.confidence)
         lowered        == update_shark_state(sharks, shark_id,
                                              [confidence |-> new_confidence])
     IN  IF new_confidence < OutThreshold
         THEN /\ sharks' = update_shark_state(lowered, shark_id, [status |-> "out"])
              /\ published' = send_sse_event(<<>>, recent, Ev("shark_out", shark_id))
              /\ tasks' = Return(t)
         ELSE /\ sharks' = lowered
              /\ tasks' = Step(t, [t EXCEPT !.pc = "ai", !.confidence = new_confidence])
              /\ published' = <<>>
  /\ Background
  /\ UNCHANGED <<pitchData, phase, transcript, lastSpeaker, offers, finalDeal, recent>>

\* generate_decline_response returns and the judge's line is published
decline_reply(t, text) ==
  /\ t.kind = "decline" /\ t.pc = "ai"
  /\ recent' \in RecentAfter(recent, Message(t.shark, text))
  /\ published' = send_sse_event(<<>>, recent, Message(t.shark, text))
  /\ tasks' = Return(t)
  /\ Background
  /\ UNCHANGED sessionVars

\* handle_counter_offer up to the call of the response collaborator
counter_start(t) ==
  /\ t.kind = "counter" /\ t.pc = "start"
  /\ published' = send_sse_event(<<>>, recent, Ev("shark_thinking", t.shark))
  /\ tasks' = Step(t, [t EXCEPT !.pc = "ai"])
  /\ Background
  /\ UNCHANGED <<sessionVars, recent>>

\* generate_counter_response returns (response, accepts), drawn in
\* counter_finish, and the speaker is announced
counter_reply(t) ==
  /\ t.kind = "counter" /\ t.pc = "ai"
  /\ published' = send_sse_event(<<>>, recent, Speaking(t.shark, TRUE))
  /\ tasks' = Step(t, [t EXCEPT !.pc = "tts"])
  /\ Background
  /\ UNCHANGED <<sessionVars, recent>>

\* {**original_offer, 'amount': ..., 'equity': ..., 'status': 'accepted'}
AcceptedCounter(original_offer, counter_terms) ==
  [original_offer EXCEPT
     !.amount = Get(counter_terms, "amount", original_offer.amount),
     !.equity = Get(counter_terms, "equity", original_offer.equity),
     !.status = "accepted"]

\* the rest of handle_counter_offer: the deal, or the reply and a new offer
counter_finish(t, reply) ==
  /\ t.kind = "counter" /\ t.pc = "tts"
  /\ LET shark_id    == t.shark
         message     == Message(shark_id, reply.text)
         final_offer == AcceptedCounter(get_offer(t.offer)[1], t.terms)
         new_offer   == parse_offer_from_response(shark_id, reply.text, pitchData)
     IN  /\ recent' \in RecentAfter(recent, message)
         /\ IF reply.accepts
            THEN /\ set_final_deal([kind |-> "copy", deal |-> final_offer])
                 /\ published' = send_sse_event(<<>>, recent, message)
                                   \o <<OfferEvent("deal_closed", final_offer)>>
                                   \o <<Speaking(shark_id, FALSE)>>
                 /\ UNCHANGED offers
            ELSE /\ offers' = IF new_offer # <<>> THEN add_offer(offers, new_offer[1])
                              ELSE offers
                 /\ published' = send_sse_event(<<>>, recent, message)
                                   \o (IF new_offer # <<>>
                                       THEN <<OfferEvent("shark_offer",
                                                         offers'[Len(offers')])>>
                                       ELSE <<>>)
                                   \o <<Speaking(shark_id, FALSE)>>
                 /\ UNCHANGED <<finalDeal, phase>>
  /\ tasks' = Return(t)
  /\ Background
  /\ UNCHANGED <<pitchData, transcript, lastSpeaker, sharks>>

\* ------------------------------------------------------------------ Next
Next ==
  \/ \E pitch_data \in PitchInputs : start_session(pitch_data)
  \/ \E tr \in TranscriptInputs : pitch_complete(tr)
  \/ user_message
  \/ \E offer_id \in 1..Len(offers) : offer_accept(offer_id)
  \/ \E offer_id \in 1..Len(offers) : offer_decline(offer_id)
  \/ \E offer_id \in 1..Len(offers), counter_terms \in CounterTermsInputs :
       offer_counter(offer_id, counter_terms)
  \/ offer_response_invalid
  \/ \E t \in Running : initial_reactions_start(t)
  \/ \E t \in Running : respond_start(t)
  \/ \E t \in Running : reaction_reply(t)
  \/ \E t \in Running, text \in SharkReplies(clientConfigured) : reaction_finish(t, text)
  \/ \E t \in Running : decline_read(t)
  \/ \E t \in Running : decline_write(t)
  \/ \E t \in Running, text \in DeclineReplies(clientConfigured) : decline_reply(t, text)
  \/ \E t \in Running : counter_start(t)
  \/ \E t \in Running : counter_reply(t)
  \/ \E t \in Running :
       \E reply \in CounterReplies(t.shark, clientConfigured) : counter_finish(t, reply)

Spec == Init /\ [][Next]_vars

\* ------------------------------------------- two decline threads at once
\* The session after /user-message drew the judge j, j's reply held an offer,
\* and two decline requests for that offer were served before either of their
\* handle_offer_decline threads ran.
DeclinedTwice(pitch_data, j) ==
  /\ clientConfigured = TRUE
  /\ exists = TRUE
  /\ pitchData = pitch_data
  /\ phase = "pitch"
  /\ transcript = <<>>
  /\ lastSpeaker = j
  /\ sharks = [k \in Sharks |->
                 [status |-> "live",
                  confidence |-> calculate_initial_confidence(k, pitch_data)]]
  /\ offers = update_offer_status(
                add_offer(<<>>, parse_offer_from_response(
                                  j, [head |-> "offer", phrases |-> {"offer"},
                                      amount |-> 200000, equity |-> 20], pitch_data)[1]),
                1, "declined")
  /\ finalDeal = NoDeal
  /\ recent = {<<j, "offer">>}
  /\ tasks = LET t == [NewTask EXCEPT !.kind = "decline", !.shark = j, !.offer = 1]
             IN  SetToBag({t}) (+) SetToBag({t})
  /\ requests = 3
  /\ response = [code |-> 200, result |-> "declined"]
  /\ published = <<>>
  /\ Quiet
  /\ Unused

InitRace == \E pitch_data \in PitchInputs, j \in Sharks : DeclinedTwice(pitch_data, j)

\* the steps of the handle_offer_decline threads
NextRace ==
  \/ \E t \in Running : decline_read(t)
  \/ \E t \in Running : decline_write(t)
  \/ \E t \in Running, text \in DeclineReplies(clientConfigured) : decline_reply(t, text)

SpecRace == InitRace /\ [][NextRace]_vars

\* ------------------------------------------- the event broadcaster alone
\* the judge who says the n-th line of the session
Speaker(n) == SHARK_IDS[(n % Len(SHARK_IDS)) + 1]

\* the n-th line of the session as an event
Line(n) == Message(Speaker(n), [head |-> n])

\* how far back a line is said again: the line before, the 25th before
Again == {0, RecentKeep - 1}

\* the events send_sse_event is called with when n lines were said: the next
\* line, an earlier line again, events of other types
BroadcastInputs(n) ==
  {Line(m) : m \in ({n + 1} \cup {n - back : back \in Again}) \cap 1..MaxLines}
    \cup {Ev("shark_thinking", Speaker(n)), Ev("shark_out", Speaker(n))}

\* the session store and the threads right after /api/session/start
Fresh(pitch_data) ==
  /\ clientConfigured = FALSE
  /\ exists = TRUE
  /\ pitchData = pitch_data
  /\ phase = "pitch"
  /\ transcript = <<>>
  /\ lastSpeaker = "-"
  /\ sharks = [j \in Sharks |->
                 [status |-> "live",
                  confidence |-> calculate_initial_confidence(j, pitch_data)]]
  /\ offers = <<>>
  /\ finalDeal = NoDeal
  /\ recent = {}
  /\ tasks = EmptyBag
  /\ requests = 0
  /\ response = NoAnswer
  /\ published = <<>>

\* a session right after /api/session/start
Started(pitch_data) == Fresh(pitch_data) /\ Quiet /\ Unused

InitDedup == \E pitch_data \in PitchInputs : Started(pitch_data)

\* one call of send_sse_event(session_id, ev.type, ev)
broadcast(ev) ==
  /\ recent' \in RecentAfter(recent, ev)
  /\ published' = send_sse_event(<<>>, recent, ev)
  /\ sent' = IF ev.type = "shark_message" THEN Max(sent, ev.head) ELSE sent
  /\ UNCHANGED <<clientConfigured, exists, pitchData, phase, transcript, lastSpeaker,
                 sharks, offers, finalDeal, tasks, requests, response>>
  /\ UNCHANGED <<queue, listeners, yielded>>
  /\ UNCHANGED unitVars

NextDedup == \E ev \in BroadcastInputs(sent) : broadcast(ev)

SpecDedup == InitDedup /\ [][NextDedup]_vars

\* ------------------------------------------------------- the event stream
\* the event send_sse_event puts on the queue: the type, the data and the
\* time of the put, a clock that every put advances
Stamped(ev, n) ==
  [f \in DOMAIN ev \cup {"timestamp"} |-> IF f = "timestamp" THEN n ELSE ev[f]]

\* get_session_queue(session_id): the queue is made when there is none
get_session_queue(q) == [q EXCEPT !.made = TRUE]

\* the events published when n were put: a signal, the next line, the line
\* before again
StreamInputs(n) ==
  {Ev("shark_thinking", Speaker(n)), Line(n + 1)} \cup (IF n >= 1 THEN {Line(n)} ELSE {})

InitStream == \E pitch_data \in PitchInputs : Started(pitch_data)

\* what neither a publisher nor a reader of the queue touches
SessionUntouched ==
  /\ UNCHANGED <<clientConfigured, exists, pitchData, phase, transcript, lastSpeaker,
                 sharks, offers, finalDeal, tasks, requests>>
  /\ UNCHANGED unitVars

\* send_sse_event(session_id, ev.type, ev) with the put on the queue
publish(ev) ==
  /\ sent < MaxEvents
  /\ recent' \in RecentAfter(recent, ev)
  /\ published' = send_sse_event(<<>>, recent, ev)
  /\ IF Dropped(recent, ev)
     THEN UNCHANGED <<queue, sent>>
     ELSE /\ queue' = [get_session_queue(queue) EXCEPT
                         !.items = Append(queue.items, Stamped(ev, sent + 1))]
          /\ sent' = sent + 1
  /\ yielded' = NoYield
  /\ response' = NoAnswer
  /\ UNCHANGED listeners
  /\ SessionUntouched

\* the generator of a response to /stream made when n events were put: it
\* has not run yet; `since` remembers n, `got` counts the events it yields
NewListener(n) == [pc |-> "start", since |-> n, got |-> 0]

\* GET /api/session/<id>/stream
stream_events ==
  /\ exists
  /\ Len(listeners) < MaxListeners
  /\ listeners' = Append(listeners, NewListener(sent))
  /\ Answer(200, "stream")
  /\ yielded' = NoYield
  /\ published' = <<>>
  /\ UNCHANGED <<queue, sent, recent>>
  /\ SessionUntouched

\* a step of a generator answers no request and publishes nothing
Generating(l) ==
  /\ l \in 1..Len(listeners)
  /\ response' = NoAnswer
  /\ published' = <<>>
  /\ UNCHANGED <<sent, recent>>
  /\ SessionUntouched

\* generate, up to its first yield
generate_start(l) ==
  /\ Generating(l)
  /\ listeners[l].pc = "start"
  /\ queue' = get_session_queue(queue)
  /\ yielded' = [listener |-> l, type |-> "connected"]
  /\ listeners' = [listeners EXCEPT ![l].pc = "wait"]

generate_event_newest(l) ==
  /\ Generating(l)
  /\ listeners[l].pc = "wait"
  /\ queue.items # <<>>
  /\ queue' = [queue EXCEPT !.items = SubSeq(queue.items, 1, Len(queue.items) - 1)]
  /\ yielded' = [listener |-> l, type |-> "event",
                 event |-> queue.items[Len(queue.items)]]
  /\ listeners' = [listeners EXCEPT ![l].got = @ + 1]

\* generate: q.get(timeout=30) returns the first item of the queue
generate_event(l) ==
  /\ Generating(l)
  /\ listeners[l].pc = "wait"
  /\ queue.items # <<>>
  /\ queue' = [queue EXCEPT !.items = Tail(queue.items)]
  /\ yielded' = [listener |-> l, type |-> "event", event |-> Head(queue.items)]
  /\ listeners' = [listeners EXCEPT ![l].got = @ + 1]

generate_heartbeat_early(l) ==
  /\ Generating(l)
  /\ listeners[l].pc = "wait"
  /\ yielded' = [listener |-> l, type |-> "heartbeat"]
  /\ UNCHANGED <<queue, listeners>>

\* generate: q.get(timeout=30) found the queue empty until the time was up
generate_heartbeat(l) ==
  /\ Generating(l)
  /\ listeners[l].pc = "wait"
  /\ queue.items = <<>>
  /\ yielded' = [listener |-> l, type |-> "heartbeat"]
  /\ UNCHANGED <<queue, listeners>>

NextStream ==
  \/ \E ev \in StreamInputs(sent) : publish(ev)
  \/ stream_events
  \/ \E l \in 1..MaxListeners : generate_start(l)
  \/ \E l \in 1..MaxListeners : generate_event(l)
  \/ \E l \in 1..MaxListeners : generate_heartbeat(l)

SpecStream == InitStream /\ [][NextStream]_vars

\* the server keeps iterating the generator of a response while the client
\* is connected, and q.get(timeout=30) returns or gives up within its time
generate(l) == generate_start(l) \/ generate_event(l) \/ generate_heartbeat(l)

FairStream == SpecStream /\ \A l \in 1..MaxListeners : WF_vars(generate(l))

\* ------------------------------------------- two listeners on one session
\* /stream was requested twice before anything was published
InitPair ==
  /\ \E pitch_data \in PitchInputs : Fresh(pitch_data)
  /\ Unused
  /\ queue = NoQueue
  /\ listeners = <<NewListener(0), NewListener(0)>>
  /\ yielded = NoYield
  /\ sent = 0

NextPair ==
  \/ \E ev \in StreamInputs(sent) : publish(ev)
  \/ \E l \in 1..Len(listeners) : generate_start(l)
  \/ \E l \in 1..Len(listeners) : generate_event(l)
  \/ \E l \in 1..Len(listeners) : generate_heartbeat(l)

SpecPair == InitPair /\ [][NextPair]_vars

\* ------------------------------------------- the session store by itself
\* the ids create_session handed out
SessionIds == {"s1", "s2"}

\* cleanup_old_sessions(max_age_hours=24)
MaxAgeHours == 24

\* the session create_session stores at hour t
NewSession(t) ==
  [phase |-> "pitch", transcript |-> <<>>, qaTranscript |-> <<>>, sharks |-> <<>>,
   offers |-> <<>>, counterOffers |-> <<>>, finalDeal |-> NoDeal, createdAt |-> t]

\* the store without the sessions of gone
Without(st, gone) == [sid \in DOMAIN st \ gone |-> st[sid]]

\* what a method of the store leaves and returns
Outcome(st, value) == [store |-> st, value |-> value]

\* SessionManager.update_session
SessionManager_update_session(st, sid, updates) ==
  IF sid \in DOMAIN st
  THEN Outcome([st EXCEPT ![sid] = [f \in DOMAIN st[sid] |->
                                     IF f \in DOMAIN updates THEN updates[f]
                                     ELSE st[sid][f]]], TRUE)
  ELSE Outcome(st, FALSE)

\* SessionManager.set_phase
SessionManager_set_phase(st, sid, p) ==
  SessionManager_update_session(st, sid, [phase |-> p])

\* SessionManager.set_transcript
SessionManager_set_transcript(st, sid, tr) ==
  SessionManager_update_session(st, sid, [transcript |-> tr])

\* SessionManager.add_qa_message
SessionManager_add_qa_message(st, sid, message, t) ==
  IF sid \in DOMAIN st
  THEN Outcome([st EXCEPT ![sid].qaTranscript =
                  Append(@, [text |-> message, timestamp |-> t])], TRUE)
  ELSE Outcome(st, FALSE)

\* SessionManager.update_shark_state: a judge without a state gets an empty
\* one first
SessionManager_update_shark_state(st, sid, shark_id, updates) ==
  IF sid \in DOMAIN st
  THEN LET ss  == st[sid].sharks
           old == IF shark_id \in DOMAIN ss THEN ss[shark_id] ELSE <<>>
           new == [f \in DOMAIN old \cup DOMAIN updates |->
                     IF f \in DOMAIN updates THEN updates[f] ELSE old[f]]
       IN  Outcome([st EXCEPT ![sid].sharks =
                      [j \in DOMAIN ss \cup {shark_id} |->
                         IF j = shark_id THEN new ELSE ss[j]]], TRUE)
  ELSE Outcome(st, FALSE)

\* SessionManager.add_offer: returns the id of the offer, or None
SessionManager_add_offer(st, sid, offer) ==
  IF sid \in DOMAIN st
  THEN LET os == add_offer(st[sid].offers, offer)
       IN  Outcome([st EXCEPT ![sid].offers = os], os[Len(os)].id)
  ELSE Outcome(st, "None")

\* SessionManager.update_offer_status
SessionManager_update_offer_status(st, sid, offer_id, status) ==
  IF sid \in DOMAIN st /\ \E k \in 1..Len(st[sid].offers) : st[sid].offers[k].id = offer_id
  THEN Outcome([st EXCEPT ![sid].offers = update_offer_status(@, offer_id, status)], TRUE)
  ELSE Outcome(st, FALSE)

\* SessionManager.add_counter_offer: returns the id of the counter, or None
SessionManager_add_counter_offer(st, sid, counter_offer) ==
  IF sid \in DOMAIN st
  THEN LET id == Len(st[sid].counterOffers) + 1
       IN  Outcome([st EXCEPT ![sid].counterOffers =
                      Append(@, [id |-> id, terms |-> counter_offer])], id)
  ELSE Outcome(st, "None")

SessionManager_set_final_deal_anyway(st, sid, deal) ==
  Outcome([s \in DOMAIN st \cup {sid} |->
             IF s = sid
             THEN [(IF sid \in DOMAIN st THEN st[sid] ELSE NewSession(0)) EXCEPT
                     !.finalDeal = deal, !.phase = "closed"]
             ELSE st[s]], TRUE)

\* SessionManager.set_final_deal
SessionManager_set_final_deal(st, sid, deal) ==
  IF sid \in DOMAIN st
  THEN Outcome([st EXCEPT ![sid].finalDeal = deal, ![sid].phase = "closed"], TRUE)
  ELSE Outcome(st, FALSE)

\* SessionManager.delete_session
SessionManager_delete_session(st, sid) ==
  IF sid \in DOMAIN st THEN Outcome(Without(st, {sid}), TRUE) ELSE Outcome(st, FALSE)

\* SessionManager.cleanup_old_sessions at hour t: returns how many it removed
SessionManager_cleanup_old_sessions(st, max_age_hours, t) ==
  LET cutoff    == t - max_age_hours
      to_delete == {sid \in DOMAIN st : st[sid].createdAt < cutoff}
  IN  Outcome(Without(st, to_delete), Cardinality(to_delete))

\* the methods that change a session
Mutators ==
  {"update_session", "set_phase", "set_transcript", "add_qa_message",
   "update_shark_state", "add_offer", "update_offer_status", "add_counter_offer",
   "set_final_deal"}

\* the offer the store is handed
OfferInput == [sharkId |-> "marcus", amount |-> 200000, equity |-> 20]

\* what the call of a method on session sid leaves and returns
Applied(op, sid) ==
  CASE op = "update_session" ->
         SessionManager_update_session(store, sid, [phase |-> "offers", transcript |-> <<{"sales"}>>])
    [] op = "set_phase" -> SessionManager_set_phase(store, sid, "qa")
    [] op = "set_transcript" -> SessionManager_set_transcript(store, sid, <<{"patented"}>>)
    [] op = "add_qa_message" -> SessionManager_add_qa_message(store, sid, "question", now)
    [] op = "update_shark_state" ->
         SessionManager_update_shark_state(store, sid, "marcus", [status |-> "out"])
    [] op = "add_offer" -> SessionManager_add_offer(store, sid, OfferInput)
    [] op = "update_offer_status" ->
         SessionManager_update_offer_status(store, sid, 1, "declined")
    [] op = "add_counter_offer" ->
         SessionManager_add_counter_offer(store, sid, [equity |-> 12])
    [] op = "set_final_deal" ->
         SessionManager_set_final_deal(store, sid, [kind |-> "copy", deal |-> OfferInput])
    [] op = "delete_session" -> SessionManager_delete_session(store, sid)

\* an old and a young session in the store, at an hour when the old one is
\* due or not
InitStore ==
  /\ \E pitch_data \in PitchInputs : Fresh(pitch_data)
  /\ Quiet
  /\ store = [sid \in SessionIds |-> NewSession(IF sid = "s1" THEN 0 ELSE 20)]
  /\ now \in {20, 25}
  /\ args = NoCall
  /\ returned = NoCall
  /\ shared = NoShared

\* a step of the store alone
Stored ==
  /\ requests < MaxCalls
  /\ requests' = requests + 1
  /\ UNCHANGED <<clientConfigured, exists, pitchData, phase, transcript, lastSpeaker,
                 sharks, offers, finalDeal, recent, tasks, response, published>>
  /\ UNCHANGED <<streamVars, now, shared>>

\* a caller calls a method of the store
call(op, sid) ==
  /\ Stored
  /\ args' = [op |-> op, sid |-> sid]
  /\ store' = Applied(op, sid).store
  /\ returned' = [op |-> op, value |-> Applied(op, sid).value]

\* a caller calls cleanup_old_sessions()
cleanup ==
  /\ Stored
  /\ args' = [op |-> "cleanup_old_sessions"]
  /\ store' = SessionManager_cleanup_old_sessions(store, MaxAgeHours, now).store
  /\ returned' = [op |-> "cleanup_old_sessions",
                  value |-> SessionManager_cleanup_old_sessions(store, MaxAgeHours, now).value]

NextStore ==
  \/ \E op \in Mutators \cup {"delete_session"}, sid \in SessionIds : call(op, sid)
  \/ cleanup

SpecStore == InitStore /\ [][NextStore]_vars

\* ------------------------------------------------- the process as it ages
\* the hours that pass in one step
HourSteps == {1, MaxAgeHours}

\* h hours pass; nothing in the process runs on a timer
pass(h) ==
  /\ now + h <= MaxHours
  /\ now' = now + h
  /\ UNCHANGED <<clientConfigured, exists, pitchData, phase, transcript, lastSpeaker,
                 sharks, offers, finalDeal, recent, tasks, requests, response, published>>
  /\ UNCHANGED <<streamVars, store, args, returned, shared>>

\* the session was created at hour 0; it is streamed while time passes
NextAging ==
  \/ NextStream
  \/ \E h \in HourSteps : pass(h)

SpecAging == InitStream /\ [][NextAging]_vars

\* time passes, and the generators are iterated
FairAging ==
  /\ SpecAging
  /\ WF_vars(\E h \in HourSteps : pass(h))
  /\ \A l \in 1..MaxListeners : WF_vars(generate(l))

\* ------------------------------------- a session removed while it is used
\* session_manager.delete_session(session_id), or cleanup_old_sessions when
\* the session is due: the entry of the session leaves the store, and
\* nothing else is touched
delete_session ==
  /\ exists
  /\ exists' = FALSE
  /\ response' = NoAnswer
  /\ published' = <<>>
  /\ yielded' = NoYield
  /\ UNCHANGED <<clientConfigured, pitchData, phase, transcript, lastSpeaker,
                 sharks, offers, finalDeal, recent, tasks, requests>>
  /\ UNCHANGED <<queue, listeners, sent>>
  /\ UNCHANGED unitVars

\* the session is streamed and published to, and removed at some point
NextLifetime ==
  \/ NextStream
  \/ delete_session

SpecLifetime == InitStream /\ [][NextLifetime]_vars

\* ------------------------------------------- requests that are turned down
\* the routes that look the session up first
Routes == {"pitch-complete", "stream", "user-message", "offer-response"}

\* The session after /user-message drew the judge j and j's reply held an
\* offer, which is pending.
Offered(pitch_data, j) ==
  /\ clientConfigured = TRUE
  /\ exists = TRUE
  /\ pitchData = pitch_data
  /\ phase = "pitch"
  /\ transcript = <<>>
  /\ lastSpeaker = j
  /\ sharks = [k \in Sharks |->
                 [status |-> "live",
                  confidence |-> calculate_initial_confidence(k, pitch_data)]]
  /\ offers = add_offer(<<>>, parse_offer_from_response(
                                j, [head |-> "offer", phrases |-> {"offer"},
                                    amount |-> 200000, equity |-> 20], pitch_data)[1])
  /\ finalDeal = NoDeal
  /\ recent = {<<j, "offer">>}
  /\ tasks = EmptyBag
  /\ requests = 0
  /\ response = NoAnswer
  /\ published = <<>>
  /\ Quiet
  /\ Unused

\* no session yet, a session just started, or a session with an offer
InitErrors ==
  \/ Init
  \/ \E pitch_data \in PitchInputs : Started(pitch_data)
  \/ \E pitch_data \in PitchInputs, j \in Sharks : Offered(pitch_data, j)

\* a request on one of the routes for a session id that is not in the store:
\* get_session returns None
not_found(route) ==
  /\ requests < MaxRequests
  /\ requests' = requests + 1
  /\ args' = [op |-> route]
  /\ Answer(404, "Session not found")
  /\ published' = <<>>
  /\ UNCHANGED <<clientConfigured, exists, sessionVars, recent, tasks>>
  /\ UNCHANGED streamVars
  /\ UNCHANGED <<store, now, returned, shared>>

\* POST /api/session/<id>/user-message without a text
user_message_empty ==
  /\ Served
  /\ Answer(400, "Message text required")
  /\ published' = <<>>
  /\ UNCHANGED <<clientConfigured, exists, sessionVars, recent, tasks>>

offer_counter_marked(offer_id) ==
  /\ Served
  /\ get_offer(offer_id) # <<>>
  /\ offers' = update_offer_status(offers, offer_id, "countered")
  /\ Answer(400, "Invalid action")
  /\ published' = <<>>
  /\ UNCHANGED <<clientConfigured, exists, pitchData, phase, transcript, lastSpeaker,
                 sharks, finalDeal, recent, tasks>>

\* POST /api/session/<id>/offer-response, action counter, an offer of the
\* session, no counterTerms: falls through to the last line
offer_counter_no_terms(offer_id) ==
  /\ Served
  /\ get_offer(offer_id) # <<>>
  /\ Answer(400, "Invalid action")
  /\ published' = <<>>
  /\ UNCHANGED <<clientConfigured, exists, sessionVars, recent, tasks>>

\* the requests of a session, served before any thread has run
NextErrors ==
  \/ \E route \in Routes : not_found(route)
  \/ user_message_empty
  \/ offer_response_invalid
  \/ \E offer_id \in 1..Len(offers) : offer_counter_no_terms(offer_id)
  \/ user_message
  \/ \E offer_id \in 1..Len(offers) : offer_accept(offer_id)
  \/ \E offer_id \in 1..Len(offers) : offer_decline(offer_id)
  \/ \E offer_id \in 1..Len(offers), counter_terms \in CounterTermsInputs :
       offer_counter(offer_id, counter_terms)

SpecErrors == InitErrors /\ [][NextErrors]_vars

\* ------------------------------------------ the confidence model by itself
\* confidences around the thresholds of should_go_out
ConfidenceInputs == {0, 14, 15, 29, 30, 100}

PhaseInputs == {"pitch", "qa", "offers", "closed"}

\* the context of should_go_out: with or without a question count, with or
\* without the royalty flags
ContextInputs ==
  {<<>>} \cup {[questionCount |-> n] : n \in 0..4}
         \cup {[questionCount |-> n, rejectedRoyalty |-> TRUE, mentionedRoyalty |-> TRUE] :
                 n \in {1, 2}}

\* what a line of the transcript can say: one phrase per signal (the second
\* needs two), and a phrase that is no signal
SignalPhrases ==
  {"patented", "million", "sales", "doubled", "subscription", "pre-revenue",
   "not patented", "crowded", "hello"}

\* transcripts of at most one line, and a transcript of two lines
TranscriptCalls ==
  {<<>>, <<{"million"}, {"sales", "doubled"}>>} \cup {<<t>> : t \in SUBSET SignalPhrases}

\* the calls of the two functions
FunctionCalls ==
  {[op |-> "should_go_out", shark_id |-> j, confidence |-> c, phase |-> p, context |-> x] :
     j \in Sharks, c \in ConfidenceInputs, p \in PhaseInputs, x \in ContextInputs}
  \cup
  {[op |-> "update_confidence_from_transcript", shark_id |-> j, transcript |-> tr,
    current_confidence |-> c] :
     j \in Sharks, tr \in TranscriptCalls, c \in {0, 50, 100}}

InitFunctions ==
  /\ \E pitch_data \in PitchInputs : Fresh(pitch_data)
  /\ Quiet
  /\ store = <<>>
  /\ now = 0
  /\ args \in FunctionCalls
  /\ returned = NoCall
  /\ shared = NoShared

\* a call of a function of the confidence model touches no session
Computed ==
  /\ returned = NoCall
  /\ UNCHANGED <<clientConfigured, exists, pitchData, phase, transcript, lastSpeaker,
                 sharks, offers, finalDeal, recent, tasks, requests, response, published>>
  /\ UNCHANGED <<streamVars, store, now, shared>>

\* SharkManager.should_go_out(shark_id, confidence, phase, context)
should_go_out_call(coin) ==
  /\ Computed
  /\ args.op = "should_go_out"
  /\ returned' = [op |-> args.op,
                  value |-> should_go_out(args.shark_id, args.confidence, args.phase,
                                          args.context, coin)]
  /\ UNCHANGED args

\* SharkManager.update_confidence_from_transcript(shark_id, transcript,
\* current_confidence); delta is its local variable at the return
update_confidence_call ==
  /\ Computed
  /\ args.op = "update_confidence_from_transcript"
  /\ returned' = [op |-> args.op,
                  value |-> update_confidence_from_transcript(
                              args.shark_id, args.transcript, args.current_confidence),
                  delta |-> IF args.transcript = <<>> THEN 0
                            ELSE TranscriptDelta(args.shark_id,
                                                 TranscriptText(args.transcript))]
  /\ UNCHANGED args

NextFunctions ==
  \/ \E coin \in BOOLEAN : should_go_out_call(coin)
  \/ update_confidence_call

SpecFunctions == InitFunctions /\ [][NextFunctions]_vars

\* ------------------------------------ the response generation by itself
\* AIClient.max_retries
max_retries == 3

GenerateOps ==
  {"generate_shark_response", "generate_decline_response", "generate_counter_response"}

\* the amount the prompt prints with thousands separators (amountRaising of
\* the pitch data, amount of the offer, amount of the counter terms): a
\* number, or a value of the request that is none, such as "300000"
AmountInputs == {[num |-> TRUE, val |-> 200000], [num |-> FALSE]}

\* the pitch transcript stored by /pitch-complete: no line, a line that is
\* an object with a text, a line that is a bare string
TranscriptEntries == {<<>>, <<[dict |-> TRUE]>>, <<[dict |-> FALSE]>>}

\* how a call of client.messages.create ends: a reply, APIConnectionError,
\* RateLimitError, AuthenticationError, any other exception
CreateOutcomes == {"text", "connection", "rate_limit", "authentication", "other"}

\* the calls of the three functions; only generate_shark_response prints
\* the transcript
GenerateCalls ==
  {[op |-> op, shark_id |-> j, client |-> c, amount |-> a, transcript |-> tr] :
     op \in GenerateOps, j \in {"marcus", "victor"}, c \in BOOLEAN, a \in AmountInputs,
     tr \in TranscriptEntries}
  \ {x \in [op : GenerateOps, shark_id : {"marcus", "victor"}, client : BOOLEAN,
             amount : AmountInputs, transcript : TranscriptEntries] :
       x.op # "generate_shark_response" /\ x.transcript # <<>>}

InitGenerate ==
  /\ \E pitch_data \in PitchInputs : Fresh(pitch_data)
  /\ Quiet
  /\ store = <<>>
  /\ now = 0
  /\ args \in GenerateCalls
  /\ returned = NoCall
  /\ shared = NoShared

\* f"${amount:,}" and _format_transcript: a value that is no number has no
\* thousands separator, a line that is no object has no get
PromptRaises(a) ==
  \/ ~a.amount.num
  \/ \E i \in 1..Len(a.transcript) : ~a.transcript[i].dict

\* the canned lines of a function
Fallbacks(a) ==
  CASE a.op = "generate_shark_response" -> FallbackReplies
    [] a.op = "generate_decline_response" -> {DeclineFallback}
    [] a.op = "generate_counter_response" -> {CounterFallback(a.shark_id)}

\* the replies of the collaborator to the prompt of a function
Generated(a) ==
  CASE a.op = "generate_shark_response" -> GeneratedReplies
    [] a.op = "generate_decline_response" -> {[head |-> "decline-reply", phrases |-> {}]}
    [] a.op = "generate_counter_response" -> CounterGenerated

\* the function returned text after `calls` calls of the collaborator, the
\* last of which ended as `last`
Done(a, text, canned, calls, last) ==
  [op |-> a.op, pc |-> "done", text |-> text, canned |-> canned,
   accepts |-> a.op = "generate_counter_response" /\ ~canned /\ AcceptsCounter(text),
   calls |-> calls, last |-> last]

\* a step of a call touches no session
Generates ==
  /\ args.op \in GenerateOps
  /\ UNCHANGED <<clientConfigured, exists, pitchData, phase, transcript, lastSpeaker,
                 sharks, offers, finalDeal, recent, tasks, requests, response, published>>
  /\ UNCHANGED <<streamVars, store, now, args, shared>>

\* if not self.client: the canned line
no_client ==
  /\ Generates
  /\ returned = NoCall
  /\ ~args.client
  /\ \E text \in Fallbacks(args) : returned' = Done(args, text, TRUE, 0, "-")

\* the prompt is built before the try: what raises there leaves the function
build_prompt ==
  /\ Generates
  /\ returned = NoCall
  /\ args.client
  /\ IF PromptRaises(args)
     THEN returned' = [op |-> args.op, pc |-> "raised", calls |-> 0, last |-> "-"]
     ELSE returned' = [op |-> args.op, pc |-> "create", attempt |-> 0, calls |-> 0,
                       last |-> "-"]

\* one call of self.client.messages.create in its try: the reply is
\* returned; generate_shark_response tries again after a connection error
\* while attempts are left; every other failure returns the canned line
create(outcome) ==
  /\ Generates
  /\ returned.op = args.op
  /\ returned.pc = "create"
  /\ LET calls == returned.calls + 1
     IN  IF outcome = "text"
         THEN \E text \in Generated(args) : returned' = Done(args, text, FALSE, calls, outcome)
         ELSE IF args.op = "generate_shark_response" /\ outcome = "connection"
                 /\ returned.attempt < max_retries - 1
              THEN returned' = [returned EXCEPT !.attempt = @ + 1, !.calls = calls,
                                                !.last = outcome]
              ELSE \E text \in Fallbacks(args) :
                     returned' = Done(args, text, TRUE, calls, outcome)

NextGenerate ==
  \/ no_client
  \/ build_prompt
  \/ \E outcome \in CreateOutcomes : create(outcome)

SpecGenerate == InitGenerate /\ [][NextGenerate]_vars

\* the collaborator answers or fails within its timeouts, and the thread
\* that runs the function keeps running
FairGenerate ==
  /\ SpecGenerate
  /\ WF_vars(no_client)
  /\ WF_vars(build_prompt)
  /\ WF_vars(\E outcome \in CreateOutcomes : create(outcome))

\* ------------------------------------------- two reaction threads at once
\* The session with two background threads started and neither run yet: the
\* judge `spoke` spoke last, os are the offers, ts the two threads.
Busy(pitch_data, configured, ph, spoke, os, ts) ==
  /\ clientConfigured = configured
  /\ exists = TRUE
  /\ pitchData = pitch_data
  /\ phase = ph
  /\ transcript = <<>>
  /\ lastSpeaker = spoke
  /\ sharks = [k \in Sharks |->
                 [status |-> "live",
                  confidence |-> calculate_initial_confidence(k, pitch_data)]]
  /\ offers = os
  /\ finalDeal = NoDeal
  /\ recent = IF os = <<>> THEN {} ELSE {<<spoke, "offer">>}
  /\ tasks = ts
  /\ requests = 2
  /\ response = NoAnswer
  /\ published = <<>>
  /\ Quiet
  /\ Unused

\* the offer a judge made in a reply, as add_offer stored it
SpokenOffer(j, pitch_data) ==
  add_offer(<<>>, parse_offer_from_response(
                    j, [head |-> "offer", phrases |-> {"offer"},
                        amount |-> 200000, equity |-> 20], pitch_data)[1])

\* after /start: two /user-message requests; /pitch-complete (with an empty
\* transcript) and a /user-message; or, with an offer of the judge j made in
\* an earlier reply, a /user-message and a counter to that offer
InitTwo ==
  \E pitch_data \in PitchInputs, configured \in BOOLEAN :
    LET respond == [NewTask EXCEPT !.kind = "respond"]
    IN  \/ Busy(pitch_data, configured, "pitch", "-", <<>>,
                SetToBag({respond}) (+) SetToBag({respond}))
        \/ Busy(pitch_data, configured, "qa", "-", <<>>,
                SetToBag({[NewTask EXCEPT !.kind = "initial"]}) (+) SetToBag({respond}))
        \/ \E j \in {"marcus", "victor"} :
             /\ configured
             /\ Busy(pitch_data, configured, "pitch", j,
                     update_offer_status(SpokenOffer(j, pitch_data), 1, "countered"),
                     SetToBag({respond})
                     (+) SetToBag({[NewTask EXCEPT !.kind = "counter", !.shark = j,
                                                   !.offer = 1,
                                                   !.terms = [equity |-> 12]]}))

\* the steps of the two threads
NextTwo ==
  \/ \E t \in Running : initial_reactions_start(t)
  \/ \E t \in Running : respond_start(t)
  \/ \E t \in Running : reaction_reply(t)
  \/ \E t \in Running, text \in SharkReplies(clientConfigured) : reaction_finish(t, text)
  \/ \E t \in Running : counter_start(t)
  \/ \E t \in Running : counter_reply(t)
  \/ \E t \in Running :
       \E reply \in CounterReplies(t.shark, clientConfigured) : counter_finish(t, reply)

SpecTwo == InitTwo /\ [][NextTwo]_vars

\* ------------------------------------- the terms of an offer by themselves
\* random.randint(a, b) of generate_offer_terms, per judge; victor draws none
\* for the equity
RandInts(shark_id) ==
  CASE shark_id = "marcus"  -> {5, 15}
    [] shark_id = "elena"   -> {3, 8}
    [] shark_id = "richard" -> {2, 7}
    [] shark_id = "daniel"  -> {0, 10}
    [] OTHER                -> {0}

\* SharkManager.generate_offer_terms(shark_id, pitch_data, confidence); r is
\* the number random.randint returned
generate_offer_terms(shark_id, pitch_data, confidence, r) ==
  LET ask_amount == Get(pitch_data, "amountRaising", 100000)
      ask_equity == Get(pitch_data, "equityPercent", 10)
      equity == CASE shark_id = "victor"  -> Max(ask_equity - 5, 5)
                  [] shark_id = "marcus"  -> IF confidence > 85 THEN ask_equity
                                             ELSE Min(ask_equity + r, 50)
                  [] shark_id = "elena"   -> ask_equity + r
                  [] shark_id = "richard" -> IF confidence > 80 THEN ask_equity
                                             ELSE ask_equity + r
                  [] shark_id = "daniel"  -> ask_equity + r
                  [] OTHER                -> ask_equity
  IN  [sharkId |-> shark_id,
       amount  |-> ask_amount,
       equity  |-> IF confidence < 70 THEN Min(equity + 10, 50) ELSE equity,
       royaltyUntil |-> IF shark_id = "victor" THEN <<ask_amount>> ELSE <<>>]

\* PROOF_CONFIDENCE of the serverless session function
PROOF_CONFIDENCE == [revenue |-> 70, users |-> 60, customers |-> 65, idea |-> 40]

\* calculate_initial_confidence of the serverless session function;
\* shark_index is the judge's place in its SHARK_IDS
api_calculate_initial_confidence(shark_index, pitch_data) ==
  LET proof_type      == Get(pitch_data, "proofType", "idea")
      base_confidence == Get(PROOF_CONFIDENCE, proof_type, 50)
      variation       == (shark_index - 2) * 5
  IN  Max(20, Min(90, base_confidence + variation))

\* the pitch of the scenario: an idea, 100000 for 10%, no description
ScenarioPitch == [amountRaising |-> 100000, equityPercent |-> 10, proofType |-> "idea"]

\* asked equities from 0 to 100
AskedEquity == {0, 10, 45, 95, 100}

\* confidences around the thresholds of generate_offer_terms
TermsConfidence == {60, 69, 70, 80, 81, 85, 86}

\* generated texts that look like an offer or not, with the numbers the two
\* regular expressions find in them
OfferTexts ==
  {[head |-> "talk", phrases |-> {}],
   [head |-> "offer", phrases |-> {"offer"}],
   [head |-> "offer", phrases |-> {"offer"}, amount |-> 200000],
   [head |-> "offer", phrases |-> {"offer"}, amount |-> 200000, equity |-> 20],
   [head |-> "offer", phrases |-> {"i'm in for"}, equity |-> 100],
   [head |-> "offer", phrases |-> {"offer"}, amount |-> 200000, equity |-> 150]}

\* replies to a counter: every choice of these phrases
CounterTexts ==
  {[head |-> "counter", phrases |-> ps] :
     ps \in SUBSET {"accept", "deal", "no deal", "done", "offer", "i'm out"}}

\* the calls of the four functions
TermsCalls ==
  {[op |-> "generate_offer_terms", shark_id |-> j, confidence |-> c,
    pitch_data |-> [equityPercent |-> e]] :
     j \in Sharks, c \in TermsConfidence, e \in AskedEquity}
  \cup
  {[op |-> "parse_offer_from_response", shark_id |-> j, response |-> t,
    pitch_data |-> [equityPercent |-> e]] :
     j \in {"marcus", "victor"}, t \in OfferTexts, e \in AskedEquity}
  \cup
  {[op |-> "calculate_initial_confidence", shark_id |-> j, api |-> a, pitch_data |-> pd] :
     j \in Sharks, a \in BOOLEAN, pd \in PitchInputs \cup {ScenarioPitch}}
  \cup
  {[op |-> "accepts", response |-> t] : t \in CounterTexts}

InitTerms ==
  /\ \E pitch_data \in PitchInputs : Fresh(pitch_data)
  /\ Quiet
  /\ store = <<>>
  /\ now = 0
  /\ args \in TermsCalls
  /\ returned = NoCall
  /\ shared = NoShared

generate_offer_terms_call(r) ==
  /\ Computed
  /\ args.op = "generate_offer_terms"
  /\ r \in RandInts(args.shark_id)
  /\ returned' = [op |-> args.op,
                  value |-> generate_offer_terms(args.shark_id, args.pitch_data,
                                                 args.confidence, r)]
  /\ UNCHANGED args

\* the offer, or None, as a sequence of at most one offer
parse_offer_call ==
  /\ Computed
  /\ args.op = "parse_offer_from_response"
  /\ returned' = [op |-> args.op,
                  value |-> parse_offer_from_response(args.shark_id, args.response,
                                                      args.pitch_data)]
  /\ UNCHANGED args

\* the confidence a judge starts with: in the server, in the serverless
\* function
initial_confidence_call ==
  /\ Computed
  /\ args.op = "calculate_initial_confidence"
  /\ returned' = [op |-> args.op,
                  value |-> IF args.api
                            THEN api_calculate_initial_confidence(Index(args.shark_id) - 1,
                                                                  args.pitch_data)
                            ELSE calculate_initial_confidence(args.shark_id,
                                                              args.pitch_data)]
  /\ UNCHANGED args

\* the acceptance test generate_counter_response applies to the reply
accepts_call ==
  /\ Computed
  /\ args.op = "accepts"
  /\ returned' = [op |-> args.op, value |-> AcceptsCounter(args.response)]
  /\ UNCHANGED args

NextTerms ==
  \/ \E r \in UNION {RandInts(j) : j \in Sharks} : generate_offer_terms_call(r)
  \/ parse_offer_call
  \/ initial_confidence_call
  \/ accepts_call

SpecTerms == InitTerms /\ [][NextTerms]_vars

\* --------------------------- send_sse_event one statement at a time
\* threads that call send_sse_event at once
MaxPublishers == 2

\* recent_messages and session_queues without an entry for the session, no
\* Queue object made, nothing received on /stream; a dict entry is a
\* sequence of at most one value, session_queues holds the number of the
\* Queue object
NoEntries ==
  [recent_messages |-> <<>>, session_queues |-> <<>>, queues |-> <<>>, received |-> <<>>]

\* the events published at once: one canned line of one judge, and an event
\* that is no shark_message
PublishInputs ==
  {Message("marcus", [head |-> "fallback1", phrases |-> {}]), Ev("shark_thinking", "marcus")}

InitPublish ==
  /\ \E pitch_data \in PitchInputs : Fresh(pitch_data)
  /\ Quiet
  /\ store = <<>>
  /\ now = 0
  /\ args = NoCall
  /\ returned = NoCall
  /\ shared = NoEntries

\* a thread of kind send_sse_event or generate at the statement pc, with the
\* event it publishes and the Queue object it holds in q
Statement(kind, pc, ev) == [kind |-> kind, pc |-> pc, ev |-> ev, q |-> 0]

\* the thread t executes one statement and is t2 afterwards
Executes(t, t2) ==
  /\ tasks' = Step(t, t2)
  /\ UNCHANGED <<clientConfigured, exists, sessionVars, recent, requests, response,
                 published, streamVars, store, now, args, returned>>

\* the thread t executes its last statement
Leaves(t) ==
  /\ tasks' = Return(t)
  /\ UNCHANGED <<clientConfigured, exists, sessionVars, recent, requests, response,
                 published, streamVars, store, now, args, returned>>

\* a background thread calls send_sse_event(session_id, ev.type, ev)
send_sse_event_call(ev) ==
  /\ sent < MaxPublishers
  /\ sent' = sent + 1
  /\ tasks' = StartThread(Statement("send_sse_event",
                                     IF ev.type = "shark_message" THEN "has_set"
                                     ELSE "has_queue", ev))
  /\ UNCHANGED <<clientConfigured, exists, sessionVars, recent, requests, response,
                 published, queue, listeners, yielded, store, now, args, returned, shared>>

\* GET /api/session/<id>/stream: the generator starts with get_session_queue
stream_events_call ==
  /\ requests < MaxListeners
  /\ requests' = requests + 1
  /\ tasks' = StartThread(Statement("generate", "has_queue", <<>>))
  /\ UNCHANGED <<clientConfigured, exists, sessionVars, recent, response, published,
                 streamVars, store, now, args, returned, shared>>

\* if session_id not in recent_messages
has_set(t) ==
  /\ t.pc = "has_set"
  /\ Executes(t, [t EXCEPT !.pc = IF shared.recent_messages = <<>> THEN "new_set"
                                  ELSE "has_key"])
  /\ UNCHANGED shared

\* recent_messages[session_id] = set()
new_set(t) ==
  /\ t.pc = "new_set"
  /\ Executes(t, [t EXCEPT !.pc = "has_key"])
  /\ shared' = [shared EXCEPT !.recent_messages = <<{}>>]

\* if msg_key in recent_messages[session_id]: return
has_key(t) ==
  /\ t.pc = "has_key"
  /\ IF DedupKey(t.ev) \in shared.recent_messages[1]
     THEN Leaves(t)
     ELSE Executes(t, [t EXCEPT !.pc = "add"])
  /\ UNCHANGED shared

\* recent_messages[session_id].add(msg_key), trimmed above the cap
add(t) ==
  /\ t.pc = "add"
  /\ Executes(t, [t EXCEPT !.pc = "has_queue"])
  /\ \E r \in RecentAfter(shared.recent_messages[1], t.ev) :
       shared' = [shared EXCEPT !.recent_messages = <<r>>]

\* get_session_queue: if session_id not in session_queues
has_queue(t) ==
  /\ t.pc = "has_queue"
  /\ Executes(t, [t EXCEPT !.pc = IF shared.session_queues = <<>> THEN "new_queue"
                                  ELSE "read_queue"])
  /\ UNCHANGED shared

\* get_session_queue: session_queues[session_id] = queue.Queue()
new_queue(t) ==
  /\ t.pc = "new_queue"
  /\ Executes(t, [t EXCEPT !.pc = "read_queue"])
  /\ shared' = [shared EXCEPT !.queues = Append(@, <<>>),
                              !.session_queues = <<Len(shared.queues) + 1>>]

\* get_session_queue: return session_queues[session_id]
read_queue(t) ==
  /\ t.pc = "read_queue"
  /\ Executes(t, [t EXCEPT !.q = shared.session_queues[1],
                           !.pc = IF t.kind = "generate" THEN "get" ELSE "put"])
  /\ UNCHANGED shared

\* q.put(event)
put(t) ==
  /\ t.pc = "put"
  /\ Leaves(t)
  /\ shared' = [shared EXCEPT !.queues[t.q] = Append(@, t.ev)]

\* event = q.get(timeout=30) with an event on q, and the yield of it; the
\* generator stays in its loop
get(t) ==
  /\ t.pc = "get"
  /\ shared.queues[t.q] # <<>>
  /\ shared' = [shared EXCEPT !.queues[t.q] = Tail(@),
                              !.received = Append(@, Head(shared.queues[t.q]))]
  /\ UNCHANGED <<tasks, clientConfigured, exists, sessionVars, recent, requests, response,
                 published, streamVars, store, now, args, returned>>

NextPublish ==
  \/ \E ev \in PublishInputs : send_sse_event_call(ev)
  \/ stream_events_call
  \/ \E t \in Running : has_set(t)
  \/ \E t \in Running : new_set(t)
  \/ \E t \in Running : has_key(t)
  \/ \E t \in Running : add(t)
  \/ \E t \in Running : has_queue(t)
  \/ \E t \in Running : new_queue(t)
  \/ \E t \in Running : read_queue(t)
  \/ \E t \in Running : put(t)
  \/ \E t \in Running : get(t)

SpecPublish == InitPublish /\ [][NextPublish]_vars

\* every thread that can execute a statement does so in the end, and the
\* client opens the stream
FairPublish ==
  /\ SpecPublish
  /\ WF_vars(stream_events_call)
  /\ WF_vars(\E t \in Running : has_set(t))
  /\ WF_vars(\E t \in Running : new_set(t))
  /\ WF_vars(\E t \in Running : has_key(t))
  /\ WF_vars(\E t \in Running : add(t))
  /\ WF_vars(\E t \in Running : has_queue(t))
  /\ WF_vars(\E t \in Running : new_queue(t))
  /\ WF_vars(\E t \in Running : read_queue(t))
  /\ WF_vars(\E t \in Running : put(t))
  /\ WF_vars(\E t \in Running : get(t))

\* ------------------------------------------------------ the rate limiter
\* RateLimiter.__init__
daily_limit == 3
weekly_limit == 10
cooldown_seconds == 30

\* 24 * 60 * 60 and 7 * 24 * 60 * 60
DaySeconds == 86400
WeekSeconds == 604800

\* the seconds that pass in one step
SecondSteps == {1, cooldown_seconds, DaySeconds}

\* rate_limiter.requests[user_id] of the one signed-in user, and time.time()
Limiter(timestamps, clock) == [requests |-> timestamps, clock |-> clock]

\* the user has started no session yet, or two sessions a while ago
InitLimiter ==
  /\ \E pitch_data \in PitchInputs : Fresh(pitch_data)
  /\ Quiet
  /\ store = <<>>
  /\ now = 0
  /\ args = NoCall
  /\ returned = NoCall
  /\ shared \in {Limiter(<<>>, 100), Limiter(<<0, 40>>, 100)}

\* _count_since(timestamps, since)
count_since(timestamps, since) ==
  Cardinality({k \in 1..Len(timestamps) : timestamps[k] > since})

\* _cleanup_old_requests: [ts for ts in timestamps if ts > week_ago]
cleanup_old_requests(timestamps, clock) ==
  SelectSeq(timestamps, LAMBDA ts : ts > clock - WeekSeconds)

\* RateLimiter.check_rate_limit for a signed-in user, on the list cleaned up
check_rate_limit(timestamps, clock) ==
  IF timestamps # <<>> /\ clock - timestamps[Len(timestamps)] < cooldown_seconds
  THEN FALSE
  ELSE IF count_since(timestamps, clock - DaySeconds) >= daily_limit THEN FALSE
  ELSE IF count_since(timestamps, clock - WeekSeconds) >= weekly_limit THEN FALSE
  ELSE TRUE

\* a request of the limiter's threads changes nothing of a session
Limited ==
  UNCHANGED <<clientConfigured, exists, sessionVars, recent, published, streamVars,
              store, now, args, returned>>

\* POST /api/session/start of the signed-in user reaches the decorator
rate_limit_call ==
  /\ requests < MaxCalls
  /\ requests' = requests + 1
  /\ tasks' = StartThread([NewTask EXCEPT !.kind = "rate_limit", !.pc = "check"])
  /\ response' = NoAnswer
  /\ UNCHANGED shared
  /\ Limited

\* check_rate_limit under the lock: the request is turned down with 429, or
\* goes on to record_request
check(t) ==
  /\ t.kind = "rate_limit" /\ t.pc = "check"
  /\ LET cleaned == cleanup_old_requests(shared.requests, shared.clock)
     IN  /\ shared' = [shared EXCEPT !.requests = cleaned]
         /\ IF check_rate_limit(cleaned, shared.clock)
            THEN /\ tasks' = Step(t, [t EXCEPT !.pc = "record"])
                 /\ response' = NoAnswer
            ELSE /\ tasks' = Return(t)
                 /\ Answer(429, "rate_limit")
  /\ UNCHANGED requests
  /\ Limited

\* record_request under the lock, then the route runs
record(t) ==
  /\ t.kind = "rate_limit" /\ t.pc = "record"
  /\ shared' = [shared EXCEPT !.requests = Append(@, shared.clock)]
  /\ tasks' = Return(t)
  /\ Answer(200, "started")
  /\ UNCHANGED requests
  /\ Limited

\* d seconds pass
tick(d) ==
  /\ sent < MaxEvents
  /\ sent' = sent + 1
  /\ shared' = [shared EXCEPT !.clock = @ + d]
  /\ UNCHANGED <<clientConfigured, exists, sessionVars, recent, published, queue,
                 listeners, yielded, store, now, args, returned, tasks, requests,
                 response>>

NextLimiter ==
  \/ rate_limit_call
  \/ \E t \in Running : check(t)
  \/ \E t \in Running : record(t)
  \/ \E d \in SecondSteps : tick(d)

SpecLimiter == InitLimiter /\ [][NextLimiter]_vars

\* ------------------------------------------------- properties of a session
PhaseRank(p) == CASE p = "pitch" -> 0 [] p = "qa" -> 1 [] OTHER -> 2

\* the events of q that carry a line or an offer of the judge
Utterances(q, shark_id) ==
  {k \in 1..Len(q) : q[k].type \in {"shark_message", "shark_offer"}
                     /\ q[k].sharkId = shark_id}

Closings(q) == {k \in 1..Len(q) : q[k].type = "deal_closed"}

\* C1: the phase of a session never regresses: closed never becomes qa or
\* pitch again, qa never becomes pitch again.
C1_PhaseNeverRegresses == [][PhaseRank(phase') >= PhaseRank(phase)]_vars

\* C2: in every reachable state, a finalDeal that is set implies the phase
\* closed.
C2_FinalDealImpliesClosed == finalDeal # NoDeal => phase = "closed"

\* C3: once finalDeal is set no further offers are processed: every later
\* accept, decline or counter request is rejected, no offer is appended and no
\* offer changes its status.
C3_NoOffersAfterDeal ==
  [][finalDeal # NoDeal =>
       /\ offers' = offers
       /\ requests' # requests =>
            response'.result \notin {"deal_closed", "declined", "counter_submitted"}]_vars

\* C4: an accept of the offer id that was accepted before returns an error,
\* publishes no second deal_closed and leaves finalDeal as it is.
C4_SecondAcceptRejected ==
  [][\A offer_id \in 1..Len(offers) :
       finalDeal = [kind |-> "ref", id |-> offer_id] /\ offer_accept(offer_id) =>
         /\ response'.code # 200
         /\ Closings(published') = {}
         /\ finalDeal' = finalDeal]_vars

\* C5: accept succeeds only for a pending offer: the accept of a declined or
\* countered offer does not set finalDeal, does not close the phase and
\* publishes no deal_closed.
C5_AcceptNeedsPending ==
  [][\A offer_id \in 1..Len(offers) :
       offers[offer_id].status # "pending" /\ offer_accept(offer_id) =>
         /\ finalDeal' = finalDeal
         /\ phase' = phase
         /\ Closings(published') = {}]_vars

\* C6: an accepted deal is immutable: once finalDeal is set no step changes
\* which offer it is or any of its fields.
C6_FinalDealImmutable == [][finalDeal # NoDeal => FinalDealValue' = FinalDealValue]_vars

\* C7: after a judge went out, no shark_message and no shark_offer of that judge
\* is published.
C7_SilentOnceOut ==
  [][\A j \in Sharks :
       exists /\ sharks[j].status = "out" => Utterances(published', j) = {}]_vars

\* C8: out is terminal: no step sets the status of a judge who is out back to
\* live.
C8_OutIsTerminal ==
  [][\A j \in Sharks :
       exists /\ sharks[j].status = "out" => sharks'[j].status = "out"]_vars

\* a judge is out while pitch-complete has just rewritten every judge's state
C8_Witness ==
  /\ exists
  /\ response.result = "qa"
  /\ \E j \in Sharks : sharks[j].status = "out"

\* C9: in every reachable state the stored confidence of every judge is an
\* integer from 0 to 100.
C9_ConfidenceInRange == exists => \A j \in Sharks : sharks[j].confidence \in 0..100

\* after a transcript update a judge at the floor made an offer, the offer was
\* declined and the decline thread has written the floored confidence
C9_Witness ==
  /\ exists
  /\ transcript # <<>>
  /\ tasks = EmptyBag
  /\ \E k \in 1..Len(offers) :
       /\ offers[k].status = "declined"
       /\ sharks[offers[k].sharkId].confidence = 0
       /\ sharks[offers[k].sharkId].status = "out"

\* C10: a decline sets the offer to declined and lowers the judge's confidence
\* by exactly 15, floored at 0; below 30 the judge goes out with one shark_out,
\* otherwise the judge's status stays and a shark_message is published.
C10_DeclineEffect ==
  [][/\ \A offer_id \in 1..Len(offers) :
          offer_decline(offer_id) => offers'[offer_id].status = "declined"
     /\ \A t \in Running :
          /\ decline_write(t) =>
               LET j   == t.shark
                   new == Max(0, sharks[j].confidence - 15)
               IN  /\ sharks'[j].confidence = new
                   /\ new < 30 => /\ sharks'[j].status = "out"
                                  /\ published' = <<Ev("shark_out", j)>>
                   /\ new >= 30 => /\ sharks'[j].status = sharks[j].status
                                   /\ published' = <<>>
          /\ (\E text \in DeclineReplies(clientConfigured) : decline_reply(t, text)) =>
               /\ Utterances(published', t.shark) # {}
               /\ sharks' = sharks]_vars

\* C11: no update of a judge's confidence is lost: when both decline threads
\* have returned, the judge's confidence is the seeded one lowered by 30,
\* floored at 0.
C11_NoLostUpdate ==
  (exists /\ tasks = EmptyBag /\ offers # <<>>) =>
    LET j == offers[1].sharkId
    IN  sharks[j].confidence = Max(0, calculate_initial_confidence(j, pitchData) - 30)

\* C12: negotiation fails safe: a counter evaluation that ends with the canned
\* line (no client, or the call raised) does not accept, leaves finalDeal, phase
\* and the offers as they are and publishes no deal_closed; without a client
\* every reply is such a line.
C12_CounterFailsSafe ==
  [][\A t \in Running :
       (t.kind = "counter" /\ t.pc = "tts") =>
         \A reply \in CounterReplies(t.shark, clientConfigured) :
           /\ (reply.text = CounterFallback(t.shark) /\ counter_finish(t, reply)) =>
                /\ ~reply.accepts
                /\ finalDeal' = finalDeal
                /\ phase' = phase
                /\ offers' = offers
                /\ Closings(published') = {}
           /\ ~clientConfigured =>
                /\ reply.text = CounterFallback(t.shark)
                /\ ~reply.accepts
                /\ parse_offer_from_response(t.shark, reply.text, pitchData) = <<>>]_vars

\* a counter was answered with the canned line and the session has no deal
C12_Witness ==
  /\ exists
  /\ \E k \in 1..Len(published) :
       published[k].type = "shark_message" /\ published[k].head = "counter-fallback"
  /\ \E k \in 1..Len(offers) : offers[k].status = "countered"
  /\ finalDeal = NoDeal
  /\ phase # "closed"

\* C13: when the judge accepts a counter, finalDeal becomes the original offer
\* with the counter terms and the status accepted, the phase becomes closed, and
\* deal_closed with that deal is published after the judge's shark_message.
C13_CounterAccepted ==
  [][\A t \in Running : \A reply \in CounterReplies(t.shark, clientConfigured) :
       (reply.accepts /\ counter_finish(t, reply)) =>
          LET original == offers[t.offer]
              deal     == [original EXCEPT
                             !.amount = Get(t.terms, "amount", original.amount),
                             !.equity = Get(t.terms, "equity", original.equity),
                             !.status = "accepted"]
          IN  /\ FinalDealValue' = <<deal>>
              /\ phase' = "closed"
              /\ \E m, d \in 1..Len(published') :
                   /\ m < d
                   /\ published'[m].type = "shark_message"
                   /\ published'[m].sharkId = t.shark
                   /\ published'[d] = OfferEvent("deal_closed", deal)]_vars

\* a reply that refuses the counter
Refuses(text) == IsGoingOut(text) \/ Occurs("no deal", text.phrases)

\* C14: when the judge does not accept a counter, finalDeal, the phase and the
\* stored offers stay as they are, but for at most one new offer, pending and
\* of the same judge; a refusal adds no offer.
C14_CounterNotAccepted ==
  [][\A t \in Running : \A reply \in CounterReplies(t.shark, clientConfigured) :
       (~reply.accepts /\ counter_finish(t, reply)) =>
          /\ finalDeal' = finalDeal
          /\ phase' = phase
          /\ SubSeq(offers', 1, Len(offers)) = offers
          /\ Len(offers') <= Len(offers) + 1
          /\ Len(offers') = Len(offers) + 1 =>
               /\ offers'[Len(offers')].status = "pending"
               /\ offers'[Len(offers')].sharkId = t.shark
          /\ Refuses(reply.text) => offers' = offers]_vars

\* C15: every offer is created pending, and an offer that has left pending
\* never changes its status again.
C15_OfferLifecycle ==
  [][/\ \A k \in 1..Len(offers) :
          offers[k].status # "pending" => offers'[k].status = offers[k].status
     /\ \A k \in (Len(offers) + 1)..Len(offers') : offers'[k].status = "pending"]_vars

\* --------------------------------------- properties of the event broadcaster
\* the keys of the 25 lines said last when n lines were said
MostRecent(n) == {DedupKey(Line(m)) : m \in (n - RecentKeep + 1)..n}

\* C16: a shark_message whose key (judge, first 50 characters) is in the
\* recent set is not enqueued and leaves the set alone, so the same line sent
\* twice in a row is enqueued once; an event of any other type, and a line
\* whose key is not in the set, is enqueued.
C16_DedupDropsRepeat ==
  [][\A ev \in BroadcastInputs(sent) :
       broadcast(ev) =>
         /\ (ev.type = "shark_message" /\ DedupKey(ev) \in recent)
              => (published' = <<>> /\ recent' = recent)
         /\ (ev.type = "shark_message" /\ published = <<ev>> /\ DedupKey(ev) \in recent)
              => Len(published \o published') = 1
         /\ (ev.type # "shark_message" \/ DedupKey(ev) \notin recent)
              => published' = <<ev>>]_vars

\* a line was sent again while its key was in the set, and was dropped
C16_Witness ==
  /\ sent >= 1
  /\ published = <<>>
  /\ DedupKey(Line(sent)) \in recent

\* C17: the recent set never holds more than 50 keys after a call of
\* send_sse_event, and the call that adds a key to a set of 50 leaves
\* exactly 25.
C17_RecentCapped ==
  [][/\ Cardinality(recent') <= RecentCap
     /\ (Cardinality(recent) = RecentCap /\ recent' # recent)
          => Cardinality(recent') = RecentKeep]_vars

\* the 51st line was sent and the set was trimmed
C17_Witness == sent = RecentCap + 1 /\ Cardinality(recent) = RecentKeep

\* C18: when the 51st distinct line overflows the recent set, the keys left
\* are those of the 25 lines said last, and a line among the 25 said last
\* that is sent again is dropped.
C18_KeepsMostRecent ==
  [][\A ev \in BroadcastInputs(sent) :
       broadcast(ev) =>
         /\ (recent = {DedupKey(Line(m)) : m \in 1..RecentCap} /\ sent' = RecentCap + 1)
              => recent' = MostRecent(sent')
         /\ (ev.type = "shark_message" /\ ev.head > sent - RecentKeep /\ ev.head <= sent)
              => published' = <<>>]_vars

\* ------------------------------------------- properties of the event stream
\* C19: the first thing a generator of /stream yields is `connected`; after
\* that each yield is the first item of the queue when the queue holds one
\* and `heartbeat` only when the queue is empty as the wait gives up; the
\* generator never ends, and keeps yielding as long as it is iterated.
C19_StreamYields ==
  /\ [][\A l \in 1..Len(listeners) :
          /\ l \in 1..Len(listeners')
          /\ listeners'[l].pc \in {"start", "wait"}
          /\ (yielded' # NoYield /\ yielded'.listener = l) =>
               IF listeners[l].pc = "start"
               THEN yielded'.type = "connected"
               ELSE IF queue.items # <<>>
                    THEN /\ yielded'.type = "event"
                         /\ yielded'.event = Head(queue.items)
                         /\ queue'.items = Tail(queue.items)
                    ELSE yielded'.type = "heartbeat"]_vars
  /\ \A l \in 1..MaxListeners : (Len(listeners) >= l) ~> (yielded.listener = l)

\* a generator that delivered an event found the queue empty afterwards
C19_Witness ==
  /\ sent >= 1
  /\ queue.items = <<>>
  /\ yielded.type = "heartbeat"
  /\ listeners[yielded.listener].pc = "wait"

\* C20: an event a generator yields was put on the queue after the call of
\* /stream that made the generator.
C20_NoReplay ==
  yielded.type = "event" => yielded.event.timestamp > listeners[yielded.listener].since

\* C21: with two generators of /stream on one session, each of them is
\* handed every event published since it subscribed, once: it never gets
\* more events than were put, and it is told that nothing is waiting
\* (heartbeat) only when it got them all.
C21_EachListenerGetsAll ==
  /\ \A l \in 1..Len(listeners) : listeners[l].got <= sent - listeners[l].since
  /\ yielded.type = "heartbeat" =>
       listeners[yielded.listener].got = sent - listeners[yielded.listener].since

\* C22: events put by the same producer (the task that speaks for a judge)
\* reach a subscriber in the order of their puts: the queue holds the events
\* in the order of the puts, and when an event is delivered no event of its
\* producer that was put before it is still waiting.
C22_ProducerFifo ==
  [][/\ \A k \in 1..Len(queue'.items), m \in 1..Len(queue'.items) :
          k < m => queue'.items[k].timestamp < queue'.items[m].timestamp
     /\ (yielded'.type = "event" /\ yielded' # yielded) =>
          \A k \in 1..Len(queue.items) :
            (queue.items[k].sharkId = yielded'.event.sharkId
               /\ queue.items[k] # yielded'.event)
              => queue.items[k].timestamp > yielded'.event.timestamp]_vars

\* an event was delivered while a later event of its producer waits
C22_Witness ==
  /\ yielded.type = "event"
  /\ \E k \in 1..Len(queue.items) :
       /\ queue.items[k].sharkId = yielded.event.sharkId
       /\ queue.items[k].timestamp > yielded.event.timestamp

\* ---------------------------------------------- properties of the store
\* C23: a method that changes a session, called with the id of a session
\* that delete_session or cleanup_old_sessions removed, leaves the whole
\* store as it is (the session is not made again, the others keep their
\* fields) and returns None (add_offer, add_counter_offer) or False (the
\* others).
C23_RemovedSessionNoOp ==
  [][\A op \in Mutators, sid \in SessionIds :
       (sid \notin DOMAIN store /\ call(op, sid)) =>
          /\ store' = store
          /\ returned'.value = IF op \in {"add_offer", "add_counter_offer"}
                               THEN "None" ELSE FALSE]_vars

\* set_final_deal was called on a removed session while another one is stored
C23_Witness ==
  /\ args.op = "set_final_deal"
  /\ args.sid \notin DOMAIN store
  /\ returned.value = FALSE
  /\ DOMAIN store # {}

\* C24: a session older than the configured age (24 hours) is eventually
\* removed from the session store.
C24_OldSessionsReaped == (exists /\ now > MaxAgeHours) ~> ~exists

\* C25: the session has an event queue or a dedup set only while it is in
\* the session store.
C25_ScopedToSession == (queue.made \/ recent # {}) => exists

\* C26: a request answered with a client error (404, 400) leaves the
\* session store, the offers, the queue and the dedup set as they are,
\* publishes nothing and starts no thread.
C26_ErrorsChangeNothing ==
  [][response'.code \in {400, 404} =>
       /\ UNCHANGED <<exists, sessionVars, recent, tasks>>
       /\ UNCHANGED <<queue, listeners, sent, store>>
       /\ published' = <<>>]_vars

\* a request on a session with a pending offer was turned down
C26_Witness ==
  /\ response.code = 400
  /\ requests >= 1
  /\ \E k \in 1..Len(offers) : offers[k].status = "pending"
  /\ tasks = EmptyBag

\* ------------------------------------- properties of the confidence model
\* C29: should_go_out returns false whenever the phase is pitch or fewer
\* than 2 questions were asked, whatever the confidence and the royalty
\* flags; it returns true whenever the phase is not pitch and the confidence
\* is below 15 after at least 2 questions or below 30 after at least 4.
C29_ShouldGoOut ==
  returned.op = "should_go_out" =>
    LET question_count == Get(args.context, "questionCount", 0)
    IN  /\ (args.phase = "pitch" \/ question_count < 2) => returned.value = FALSE
        /\ (args.phase # "pitch"
              /\ \/ args.confidence < 15 /\ question_count >= 2
                 \/ args.confidence < 30 /\ question_count >= 4)
             => returned.value = TRUE

\* a judge at 29 left after four questions
C29_Witness ==
  /\ returned.op = "should_go_out"
  /\ returned.value = TRUE
  /\ args.confidence = 29
  /\ Get(args.context, "questionCount", 0) = 4

\* half of the table modifiers of the signals the text holds
HalvedSum(shark_id, text) ==
    (IF AnyOccurs({"patent", "patented", "intellectual property"}, text)
     THEN POSITIVE_MODIFIERS.patents[shark_id] \div 2 ELSE 0)
  + (IF Occurs("million", text) /\ AnyOccurs({"revenue", "sales"}, text)
     THEN POSITIVE_MODIFIERS.revenue[shark_id] \div 2 ELSE 0)
  + (IF AnyOccurs({"growing", "growth", "doubled"}, text)
     THEN POSITIVE_MODIFIERS.growth[shark_id] \div 2 ELSE 0)
  + (IF AnyOccurs({"recurring", "subscription", "monthly"}, text)
     THEN POSITIVE_MODIFIERS.recurring[shark_id] \div 2 ELSE 0)
  + (IF AnyOccurs({"no revenue", "haven't sold", "pre-revenue"}, text)
     THEN NEGATIVE_MODIFIERS.no_revenue[shark_id] \div 2 ELSE 0)
  + (IF AnyOccurs({"no patent", "not patented"}, text)
     THEN NEGATIVE_MODIFIERS.no_protection[shark_id] \div 2 ELSE 0)
  + (IF AnyOccurs({"competitive", "crowded", "many competitors"}, text)
     THEN NEGATIVE_MODIFIERS.crowded_market[shark_id] \div 2 ELSE 0)

\* C30: the change update_confidence_from_transcript applies before it
\* clamps is the sum, over the signals the transcript holds, of half the
\* judge's table modifier of the signal, and the result is that sum added to
\* the confidence and clamped.
C30_HalvedModifiers ==
  returned.op = "update_confidence_from_transcript" =>
    LET half == HalvedSum(args.shark_id, TranscriptText(args.transcript))
    IN  /\ returned.delta = half
        /\ returned.value = Clamp(args.current_confidence + half)

\* the discipline of the retry loop of generate_shark_response: at most
\* max_retries calls of the collaborator, another call only after a
\* connection error, the canned line after the last connection error, and
\* the canned line at once after an authentication or rate-limit error
RetryDiscipline ==
  (args.op = "generate_shark_response" /\ returned.op = args.op) =>
    /\ returned.calls <= max_retries
    /\ (returned.pc = "create" /\ returned.calls > 0) => returned.last = "connection"
    /\ (returned.pc = "done" /\ returned.calls = max_retries /\ returned.last = "connection")
         => returned.canned
    /\ returned.last \in {"authentication", "rate_limit"}
         => returned.pc = "done" /\ returned.canned

\* C27: generate_shark_response always ends with a text: it calls the
\* collaborator at most 3 times, tries again only after a connection error,
\* returns the canned line after the third connection error, and returns the
\* canned line without another call after an authentication or rate-limit
\* error
C27_TerminatesWithText ==
  /\ []RetryDiscipline
  /\ (args.op = "generate_shark_response")
       ~> (returned.op = args.op /\ returned.pc = "done" /\ returned.text \in
             FallbackReplies \cup GeneratedReplies)

\* C28: none of the three generation functions raises to its caller: each
\* call ends with a text, the canned one when anything failed, also when the
\* failure happens while the prompt is built
C28_NeverRaises ==
  (returned.op \in GenerateOps) => returned.pc # "raised"

\* C31: every offer has an equity within 0..100, whether generate_offer_terms
\* made it (for any asked equity in 0..100 and any confidence) or
\* parse_offer_from_response read it off a generated text
C31_EquityInRange ==
  /\ (returned.op = "generate_offer_terms") => returned.value.equity \in 0..100
  /\ (returned.op = "parse_offer_from_response" /\ returned.value # <<>>)
       => returned.value[1].equity \in 0..100

\* C32: for the pitch {amountRaising: 100000, equityPercent: 10, proofType:
\* 'idea'} without a description every judge starts with a confidence that is
\* at most 50 and within 20..90
C32_IdeaPitchConfidence ==
  (returned.op = "calculate_initial_confidence" /\ args.pitch_data = ScenarioPitch)
    => returned.value <= 50 /\ returned.value \in 20..90

C32_Witness ==
  /\ returned.op = "calculate_initial_confidence"
  /\ args.pitch_data = ScenarioPitch
  /\ ~args.api
  /\ args.shark_id = "victor"
  /\ returned.value = 20

\* C33: a reply to a counter is classified as accepting exactly when it holds
\* an acceptance phrase and does not hold "no deal": "I'll accept that, deal!"
\* accepts, "No deal, that's too low" does not although it holds "deal"
C33_AcceptsClassifier ==
  (returned.op = "accepts") =>
    LET ps == args.response.phrases
    IN  /\ returned.value = ((\E p \in ps : p \in {"accept", "deal", "done", "no deal"})
                              /\ "no deal" \notin ps)
        /\ (ps = {"accept", "deal"}) => returned.value
        /\ (ps = {"no deal"}) => ~returned.value

C33_Witness ==
  /\ returned.op = "accepts"
  /\ args.response.phrases = {"no deal"}
  /\ returned.value = FALSE

\* the events with the key of ev that were put on any Queue object of the
\* session, received or not
Enqueued(key) ==
  Cardinality({<<i, k>> \in (1..Len(shared.queues)) \X (1..MaxPublishers) :
                 /\ k <= Len(shared.queues[i])
                 /\ shared.queues[i][k].type = "shark_message"
                 /\ DedupKey(shared.queues[i][k]) = key})
  + Cardinality({k \in 1..Len(shared.received) :
                   /\ shared.received[k].type = "shark_message"
                   /\ DedupKey(shared.received[k]) = key})

\* the events put on any Queue object so far
Accepted ==
  Len(shared.received)
  + Cardinality({<<i, k>> \in (1..Len(shared.queues)) \X (1..MaxPublishers) :
                   k <= Len(shared.queues[i])})

\* C34: the check and the recording of the dedup key are one atomic step:
\* when two threads publish a shark_message with the same key at once, exactly
\* one of the two events is enqueued
C34_OneOfTwoEnqueued ==
  \A ev \in PublishInputs :
    ev.type = "shark_message" =>
      /\ Enqueued(DedupKey(ev)) <= 1
      /\ (/\ shared.recent_messages # <<>>
          /\ DedupKey(ev) \in shared.recent_messages[1]
          /\ \A t \in Running : t.kind # "send_sse_event")
           => Enqueued(DedupKey(ev)) = 1

\* C36: every event send_sse_event does not drop is put on the queue the
\* stream reads and is delivered in the end to the stream that keeps
\* reading, also when the first publishers and the first stream find no
\* queue yet
C36_NoEventLost ==
  \A n \in 1..MaxPublishers : (Accepted >= n) ~> (Len(shared.received) >= n)

\* C35: the judge who answers a user message is not the judge who spoke last
\* while another judge is live, so no judge replies twice in a row while
\* another judge is live, also when two user messages are answered by
\* threads that run at once
C35_NotTwiceInARow ==
  [][\A t \in Running :
       (t.kind = "respond" /\ t.pc = "tts" /\ tasks' = Return(t) /\ t.shark = lastSpeaker)
         => Responding \ {t.shark} = {}]_vars

\* C37: at most one judge speaks at a time: a shark_speaking event with
\* speaking=true is published only when no other judge is between its
\* speaking=true and its speaking=false, whatever the threads of
\* pitch-complete, user messages and counters do at once
C37_OneSpeaker ==
  [][\A i \in 1..Len(published') :
       (published'[i].type = "shark_speaking" /\ published'[i].speaking)
         => \A t \in Running : t.pc = "tts" => t.shark = published'[i].sharkId]_vars

\* SessionManager.get_pending_offers
get_pending_offers == {k \in 1..Len(offers) : offers[k].status = "pending"}

\* C39: a final deal has the status accepted, whether the user accepted an
\* offer or the judge accepted a counter, so get_pending_offers never returns
\* the offer that is the final deal
C39_FinalDealAccepted ==
  finalDeal # NoDeal =>
    /\ FinalDealValue[1].status = "accepted"
    /\ \A k \in get_pending_offers : offers[k] # FinalDealValue[1]

\* C38: every reply of a judge that is appended to the qaTranscript was also
\* enqueued as a shark_message event: no reply counts as spoken while
\* send_sse_event dropped its event, e.g. a canned line the judge repeats
C38_SpokenWasPublished ==
  [][\A t \in Running :
       (t.kind \in {"initial", "respond"} /\ t.pc = "tts" /\ tasks' = Return(t))
         => \E i \in 1..Len(published') :
              /\ published'[i].type = "shark_message"
              /\ published'[i].sharkId = t.shark]_vars

\* C40: for a signed-in user the rate limiter admits no more than daily_limit
\* session starts within any 24 hours and no two starts less than
\* cooldown_seconds apart, also when requests of the user are handled by
\* threads at once
C40_RateLimited ==
  LET ts == shared.requests
  IN  /\ \A k \in 1..(Len(ts) - 1) : ts[k + 1] - ts[k] >= cooldown_seconds
      /\ \A k \in 1..(Len(ts) - daily_limit) : ts[k + daily_limit] - ts[k] >= DaySeconds

====
